---- MODULE Spec2Model ----
(***************************************************************************)
(* Optimizers of stk (src/src/stk/calculators/optimization/optimizers.py): *)
(* the caching wrapper Optimizer.optimize, the leaf optimizers, the        *)
(* composition operators and CageOptimizerSequence, as a state machine     *)
(* whose steps are the public calls made on a fixed set of optimizer       *)
(* instances.                                                              *)
(***************************************************************************)
EXTENDS Integers, Sequences, FiniteSets, TLC

(* ------------------------------ bounds -------------------------------- *)

\* Number of molecules the calls are made on.
NumMols == 2

\* Most geometry updates made in one run, all molecules together.
MaxOps == 3

\* Largest window count the window analysis reports.
MaxWindows == 4

Mols == 1..NumMols

(* ------------------------- optimizer instances ------------------------ *)

\* `windows is None` (optimizers.py:235): the analysis found no windows.
WindowsNone == -1

\* calculate_windows() result: None, or a list of this many windows.
WindowRes == {WindowsNone} \cup (3..MaxWindows)

\* np.random.rand() lies in [0, 1); fail_chance in [0, 1]. Both in percent.
Draws == {0, 50, 99}

\* Field defaults of an instance record.
NoConf ==
    [kind |-> "None", optimizers |-> <<>>, calculator |-> "None",
     try_calculator |-> "None", catch_calculator |-> "None",
     fail_chance |-> 0, num_expected_windows |-> 0]

\* stk.MMFF(), stk.UFF(), stk.ETKDG(): leaves, distinguished by class.
Leaf(k) == [NoConf EXCEPT !.kind = k]

\* stk.RaisingCalculator(calculator=c, fail_chance=f)
RaisingCalculator(c, f) ==
    [NoConf EXCEPT !.kind = "RaisingCalculator", !.calculator = c,
                   !.fail_chance = f]

\* stk.TryCatch(try_calculator=t, catch_calculator=c)
TryCatch(t, c) ==
    [NoConf EXCEPT !.kind = "TryCatch", !.try_calculator = t,
                   !.catch_calculator = c]

\* stk.Sequence(*optimizers)
Sequence(os) == [NoConf EXCEPT !.kind = "Sequence", !.optimizers = os]

\* stk.CageOptimizerSequence(num_expected_windows=n, optimizers=os)
CageOptimizerSequence(n, os) ==
    [NoConf EXCEPT !.kind = "CageOptimizerSequence", !.optimizers = os,
                   !.num_expected_windows = n]

\* The instances the calls are made on, as the tests construct them.
Config ==
    [mmff          |-> Leaf("MMFF"),
     mmff2         |-> Leaf("MMFF"),
     etkdg         |-> Leaf("ETKDG"),
     uff           |-> Leaf("UFF"),
     always_raiser |-> RaisingCalculator("etkdg", 100),
     never_raiser  |-> RaisingCalculator("mmff", 0),
     maybe_raiser  |-> RaisingCalculator("uff", 50),
     success       |-> TryCatch("etkdg", "None"),
     try_catch     |-> TryCatch("always_raiser", "success"),
     failing_seq   |-> Sequence(<<"etkdg", "always_raiser">>),
     try_seq       |-> TryCatch("failing_seq", "mmff"),
     try_maybe     |-> TryCatch("maybe_raiser", "mmff2"),
     sequence      |-> Sequence(<<"etkdg", "maybe_raiser", "mmff">>),
     cage_sequence |-> CageOptimizerSequence(4, <<"etkdg", "mmff">>)]

Insts == DOMAIN Config

\* The programs run: each constructs some of the instances and calls them.
Scenarios == {"cache", "compose", "cage"}

\* The instances a program constructs.
Live(s) ==
    CASE s = "cache" -> {"mmff", "mmff2"}
      [] s = "cage" -> {"etkdg", "mmff", "cage_sequence"}
      [] s = "compose" -> Insts \ {"cage_sequence"}

\* The instances a program constructs with either value of use_cache and
\* calls add_to_cache and set_cache_use on; every other instance keeps the
\* default, use_cache=False.
Caching(s) ==
    CASE s = "cache" -> {"mmff", "mmff2"}
      [] s = "cage" -> {"cage_sequence"}
      [] s = "compose" -> {}

LeafKinds == {"MMFF", "UFF", "ETKDG"}

IsLeaf(i) == Config[i].kind \in LeafKinds

Range(s) == {s[k] : k \in 1..Len(s)}

\* The calculators an instance holds a reference to.
ChildrenOf(i) ==
    (Range(Config[i].optimizers)
        \cup {Config[i].calculator, Config[i].try_calculator,
              Config[i].catch_calculator}) \ {"None"}

RECURSIVE Desc(_)
\* An instance and everything it references, directly or transitively.
Desc(i) == {i} \cup UNION {Desc(c) : c \in ChildrenOf(i)}

VARIABLES
    scenario,   \* the program being run
    use_cache,  \* Calculator._use_cache of every instance
    cache,      \* Calculator._cache of every instance (the molecules in it)
    geom,       \* per molecule, the geometry updates applied to it so far
    call,       \* the last public call: [op, inst, mol]
    oracle,     \* what the environment answered during the last call
    events,     \* what happened during the last call, in order
    exc,        \* the exception the last call raised, or "none"
    collapsed,  \* per caching instance, the molecules a call found collapsed
    \* XTB (the external-process optimizer)
    xmode,      \* how XTB.optimize calls are scheduled in this run
    ctor,       \* per caller, the XTB(...) construction it made and its outcome
    xinst,      \* per caller, its XTB instance (attributes, incomplete, cache)
    xgeom,      \* per molecule, the file its geometry was last read from
    cwd,        \* per process, the working directory
    fs,         \* the directories that exist, with the files in each
    pc,         \* per caller, where its optimize call stands
    frame,      \* per caller, the locals of its optimize call
    \* the EA (EvolutionaryAlgorithm.run_ea)
    ea_pc,      \* where run_ea stands
    terminator, \* n of the NumGenerations(n) terminator of the run
    num_processes, \* self.num_processes, the size of the process pool
    pop,        \* self.pop.direct_members, with what the current stage did to each
    gen,        \* the local gen of run_ea
    made,       \* the locals offspring and mutants of run_ea (their lengths)
    progress,   \* progress.subpopulations, the recorded snapshots
    trail,      \* the steps run_ea has taken since the last test of the loop
    tally,      \* how often run_ea has invoked each collaborator
    disk,       \* the working directory of run_ea and the files it moves
    ea_exc,     \* the exception run_ea raised, or "none"
    \* XTB._is_complete on its own
    probe,      \* what one call of _is_complete finds: markers, frequencies
    verdict     \* what that call returned or raised, once it was made

cvars == <<scenario, use_cache, cache, geom, call, oracle, events, exc,
           collapsed>>

xvars == <<xmode, ctor, xinst, xgeom, cwd, fs, pc, frame>>

evars == <<ea_pc, terminator, num_processes, pop, gen, made, progress, trail,
           tally, disk, ea_exc>>

fvars == <<probe, verdict>>

vars == <<cvars, xvars, evars, fvars>>

(* ------------------------- XTB: values of its state -------------------- *)

\* Bound: the largest max_runs a caller asks for.
MaxRuns == 2

\* Bound: the optimize calls one caller makes in a serial run.
MaxCalls == 2

\* The callers of XTB.optimize: the main thread (1) and one more.
Callers == {1, 2}

\* "config": constructions with every version and solvent, then one call;
\* "serial": one caller, one call after the other; "threads": two calls in
\* two threads of one process; "processes": two calls in two processes;
\* "molecules": one caller, one call after the other, on any molecules.
XtbModes == {"config", "serial", "threads", "processes", "molecules"}

\* The callers that run in a mode.
Active(mode) == IF mode \in {"threads", "processes"} THEN Callers ELSE {1}

\* The process a caller runs in.
ProcOf(mode, t) == IF mode = "processes" THEN t ELSE 1

\* The calls a caller makes in a mode.
CallsIn(mode) == IF mode \in {"serial", "molecules"} THEN MaxCalls ELSE 1

\* A directory is the sequence of names leading to it from the directory
\* the program was started in.
Home == <<>>

\* os.path.abspath(name), evaluated in directory d.
abspath(d, name) == Append(d, name)

IsPrefix(d, e) == Len(d) <= Len(e) /\ SubSeq(e, 1, Len(d)) = d

\* The files XTB reads and writes, all by names relative to the working
\* directory: input_structure_<k>.xyz, optimization_<k>.output and the
\* files the executable leaves behind.
XYZ(k) == <<"input_structure", k>>

OUT(k) == <<"optimization", k>>

XTBOPTOK == <<".xtboptok", 0>>

NOT_CONVERGED == <<"NOT_CONVERGED", 0>>

COORD == <<"xtbhess.coord", 0>>

OUTPUT_XYZ == <<"xtbopt.xyz", 0>>

\* No file at all.
NoFile == <<"none", 0>>

FileNames ==
    {XYZ(k) : k \in 1..MaxRuns} \cup {OUT(k) : k \in 1..MaxRuns}
        \cup {XTBOPTOK, NOT_CONVERGED, COORD, OUTPUT_XYZ}

\* A file's content: whose call wrote it, in which attempt, and (an output
\* file) whether it lists a negative frequency past the first six.
Absent == [by |-> 0, run |-> 0, neg |-> FALSE]

Content(t, k, neg) == [by |-> t, run |-> k, neg |-> neg]

\* A marker file is empty: only its presence is read.
Marker == [by |-> 0, run |-> 0, neg |-> TRUE]

EmptyDir == [n \in FileNames |-> Absent]

\* A molecule as built, before any file was read into it.
InitialGeom == [file |-> "none", content |-> Absent]

NoXtb == [kind |-> "none"]

NoCtor == [made |-> FALSE]

\* The locals of an optimize call on molecule m, the caller's n-th, begun
\* in directory d: output_dir and init_dir of XTB._optimize; run,
\* opt_complete ("unbound" until assigned) of XTB._run_optimizations; the
\* times the executable was started; what each attempt's checks found in
\* the working directory; the exception in flight. For the reading of a
\* call: the directory it was made in, whether the molecule was in
\* self.incomplete then, whether the cache answered it.
\* How the last call that ran ended: returned ("done") or raised, with what
\* exception, with what opt_complete, on which molecule. It is kept between
\* calls and until the next call that runs makes its directory.
NoPrev == [how |-> "none", exc |-> "none", complete |-> "unbound", mol |-> 0]

EndedAs(fr, how) ==
    [how |-> how, exc |-> fr.exc, complete |-> fr.complete, mol |-> fr.mol]

Frame(m, n, d) ==
    [mol |-> m, n |-> n, entry_dir |-> d, marked |-> FALSE, skipped |-> FALSE,
     output_dir |-> Home, init_dir |-> Home,
     run |-> 0, complete |-> "unbound", invoked |-> 0,
     seen |-> <<>>, wrote |-> <<>>, exc |-> "none", prev |-> NoPrev]

NoFrame == Frame(0, 0, Home)

\* The state of XTB in a run that makes no use of it.
XtbUnused ==
    /\ xmode = "off"
    /\ ctor = [t \in Callers |-> NoCtor]
    /\ xinst = [t \in Callers |-> NoXtb]
    /\ xgeom = [m \in Mols |-> InitialGeom]
    /\ cwd = [p \in Callers |-> Home]
    /\ fs = [d \in {Home} |-> EmptyDir]
    /\ pc = [t \in Callers |-> "idle"]
    /\ frame = [t \in Callers |-> NoFrame]

(* ------------------------ EA: values of its state ---------------------- *)
(* run_ea (ea_class.py:305-480) is one thread of control over one          *)
(* population. Its members carry no identity of their own here: set_mol_ids *)
(* renumbers them, so a member is its position in direct_members.           *)

\* The largest initial population, and the most offspring, and the most
\* mutants, that one generation adds.
MaxMembers == 2

MaxNew == 1

\* The largest n of NumGenerations(n), and the largest process pool.
MaxGenerations == 3

MaxProcesses == 2

\* What a stage (optimize, fitness) has done to a member so far.
TaskStates == {"pending", "running", "done", "raised"}

\* A member of the population made in generation g (0: initial population).
Member(g) == [born |-> g, opt |-> "pending", fit |-> "pending"]

\* After os.chdir('scratch') and open('errors.log', 'w').close(): where
\* run_ea is, whether ./output is still in the launch directory, the
\* directories of ./output that hold an errors.log, and whether the logging
\* handler of errors (created with delay=True) has opened its file yet.
FreshDisk ==
    [cwd |-> "scratch", output |-> "present", errors_log |-> {"scratch"},
     handler |-> "unopened"]

\* offspring and mutants not yet assigned; with each, the population its
\* selector was given to select the parents from.
NoneMade ==
    [offspring |-> 0, mutants |-> 0, cross_pool |-> <<>>, mutate_pool |-> <<>>]

NoTally == [cross |-> 0, mutate |-> 0, select |-> 0, finalize |-> 0]

\* The state of the EA in a run that makes no use of it.
EaUnused ==
    /\ ea_pc = "off"
    /\ terminator = 0
    /\ num_processes = 0
    /\ pop = <<>>
    /\ gen = 0
    /\ made = NoneMade
    /\ progress = <<>>
    /\ trail = <<>>
    /\ tally = NoTally
    /\ disk = FreshDisk
    /\ ea_exc = "none"

(* ------------------ XTB._is_complete: values of its state -------------- *)

\* The most frequencies an output file lists.
MaxFreqs == 8

\* A frequency as the check reads it: negative, zero, positive.
FreqValues == {-1, 0, 1}

NoVerdict == [exc |-> "unset", value |-> FALSE]

NoProbe ==
    [frequencies |-> <<>>, ok |-> FALSE, nc |-> FALSE,
     calculate_hessian |-> FALSE]

\* The state of a run that makes no check on its own.
ProbeUnused ==
    /\ probe = NoProbe
    /\ verdict = NoVerdict

(* ------------------- what one call does, as operators ------------------ *)
(* A call threads a record st = [geom, cache, events, exc] through the     *)
(* calculators it reaches. st.exc # "none" is an exception in flight.      *)
(* orc holds the environment's answers for the call: orc.fail, the leaves  *)
(* whose force-field code raises; orc.rand[i], the number RaisingCalculator*)
(* i draws; orc.windows[c], the window analysis made before child c.       *)

Log(st, ev, i) == [st EXCEPT !.events = Append(@, <<ev, i>>)]

Raise(st, e) == [st EXCEPT !.exc = e]

RECURSIVE optimize(_, _, _, _)

\* MMFF._optimize, UFF._optimize, ETKDG._optimize: the molecule is written
\* by the last statement, so a raise leaves it as it was.
Leaf_optimize(i, m, st, orc) ==
    IF i \in orc.fail
    THEN Raise(st, "Exception")
    ELSE Log([st EXCEPT !.geom[m] = Append(@, Config[i].kind)], "update", i)

RECURSIVE CageLoop(_, _, _, _, _)

\* The loop with `continue` for `return`: a failed window check skips one
\* child and the loop goes on.
CageLoop_continue(i, k, m, st, orc) ==
    IF k > Len(Config[i].optimizers)
    THEN st
    ELSE LET optimizer == Config[i].optimizers[k]
             windows == orc.windows[optimizer]
         IN  IF \/ windows = WindowsNone
                \/ windows # Config[i].num_expected_windows
             THEN CageLoop(i, k + 1, m, Log(st, "collapsed", optimizer), orc)
             ELSE LET r == optimize(optimizer, m,
                                    Log(st, "windows_ok", optimizer), orc)
                  IN  IF r.exc # "none" THEN r
                      ELSE CageLoop(i, k + 1, m, r, orc)

\* The for loop of CageOptimizerSequence._optimize, from child k on.
CageLoop(i, k, m, st, orc) ==
    IF k > Len(Config[i].optimizers)
    THEN st
    ELSE LET optimizer == Config[i].optimizers[k]
             windows == orc.windows[optimizer]
         IN  IF \/ windows = WindowsNone
                \/ windows # Config[i].num_expected_windows
             THEN Log(st, "collapsed", optimizer)
             ELSE LET r == optimize(optimizer, m,
                                    Log(st, "windows_ok", optimizer), orc)
                  IN  IF r.exc # "none" THEN r
                      ELSE CageLoop(i, k + 1, m, r, orc)

CageOptimizerSequence_optimize(i, m, st, orc) == CageLoop(i, 1, m, st, orc)

RECURSIVE SequenceLoop(_, _, _, _, _)

\* The loop run to its end before a child's exception is raised again.
SequenceLoop_keeps_going(i, k, m, st, orc) ==
    IF k > Len(Config[i].optimizers)
    THEN st
    ELSE LET r == optimize(Config[i].optimizers[k], m, st, orc)
         IN  IF r.exc # "none"
             THEN Raise(SequenceLoop(i, k + 1, m, Raise(r, "none"), orc),
                        r.exc)
             ELSE SequenceLoop(i, k + 1, m, r, orc)

\* Sequence: each child's optimize in listed order; a raise ends the loop.
SequenceLoop(i, k, m, st, orc) ==
    IF k > Len(Config[i].optimizers)
    THEN st
    ELSE LET r == optimize(Config[i].optimizers[k], m, st, orc)
         IN  IF r.exc # "none" THEN r
             ELSE SequenceLoop(i, k + 1, m, r, orc)

Sequence_optimize(i, m, st, orc) == SequenceLoop(i, 1, m, st, orc)

\* TryCatch that swallows the exception and never runs its catch calculator.
TryCatch_optimize_swallows(i, m, st, orc) ==
    LET r == optimize(Config[i].try_calculator, m, st, orc)
    IN  IF r.exc = "none" THEN r
        ELSE Log(Raise(r, "none"), "caught", i)

\* TryCatch that runs its catch calculator after a try that returned, too.
TryCatch_optimize_finally(i, m, st, orc) ==
    LET r == optimize(Config[i].try_calculator, m, st, orc)
        caught == IF r.exc = "none" THEN r
                  ELSE Log(Raise(r, "none"), "caught", i)
    IN  IF Config[i].catch_calculator = "None"
        THEN caught
        ELSE optimize(Config[i].catch_calculator, m, caught, orc)

\* TryCatch: the try calculator; on an exception, the catch calculator,
\* or nothing when there is none.
TryCatch_optimize(i, m, st, orc) ==
    LET r == optimize(Config[i].try_calculator, m, st, orc)
    IN  IF r.exc = "none" THEN r
        ELSE LET caught == Log(Raise(r, "none"), "caught", i)
             IN  IF Config[i].catch_calculator = "None"
                 THEN caught
                 ELSE optimize(Config[i].catch_calculator, m, caught, orc)

\* RaisingCalculator comparing with <= for <.
RaisingCalculator_optimize_le(i, m, st, orc) ==
    IF orc.rand[i] <= Config[i].fail_chance
    THEN Raise(st, "RaisingCalculatorError")
    ELSE optimize(Config[i].calculator, m, st, orc)

\* RaisingCalculator: raises when the number drawn is below fail_chance,
\* before the wrapped calculator is touched.
RaisingCalculator_optimize(i, m, st, orc) ==
    IF orc.rand[i] < Config[i].fail_chance
    THEN Raise(st, "RaisingCalculatorError")
    ELSE optimize(Config[i].calculator, m, st, orc)

\* self._optimize: dispatch on the class of the instance.
_optimize(i, m, st, orc) ==
    CASE IsLeaf(i) -> Leaf_optimize(i, m, st, orc)
      [] Config[i].kind = "CageOptimizerSequence" ->
            CageOptimizerSequence_optimize(i, m, st, orc)
      [] Config[i].kind = "Sequence" -> Sequence_optimize(i, m, st, orc)
      [] Config[i].kind = "TryCatch" -> TryCatch_optimize(i, m, st, orc)
      [] Config[i].kind = "RaisingCalculator" ->
            RaisingCalculator_optimize(i, m, st, orc)

\* Whether, in the call with events es, the cage sequence i ran and left by
\* the `return` of a failed window check.
ExitedEarly(i, es) ==
    /\ Config[i].kind = "CageOptimizerSequence"
    /\ \E k \in 1..Len(es) : es[k] = <<"run", i>>
    /\ \E c \in Range(Config[i].optimizers) :
          \E k \in 1..Len(es) : es[k] = <<"collapsed", c>>

\* _cache_result recording only a call whose _optimize ran to its last
\* statement: a cage sequence that left early is not recorded.
_cache_result_unless_collapsed(i, m, st, orc) ==
    IF use_cache[i] /\ m \in st.cache[i]
    THEN Log(st, "skip", i)
    ELSE LET r == _optimize(i, m, Log(st, "run", i), orc)
         IN  IF r.exc # "none" THEN r
             ELSE IF use_cache[i] /\ ~ExitedEarly(i, r.events)
                  THEN [r EXCEPT !.cache[i] = @ \cup {m}]
                  ELSE r

\* MoleculeCalculator._cache_result(fn, mol): skip a cached molecule;
\* otherwise run fn and, when caching and fn returned, record the molecule.
_cache_result(i, m, st, orc) ==
    IF use_cache[i] /\ m \in st.cache[i]
    THEN Log(st, "skip", i)
    ELSE LET r == _optimize(i, m, Log(st, "run", i), orc)
         IN  IF r.exc # "none" THEN r
             ELSE IF use_cache[i]
                  THEN [r EXCEPT !.cache[i] = @ \cup {m}]
                  ELSE r

\* The call and return events every variant of optimize logs.
Traced(i, r) == Log(r, IF r.exc = "none" THEN "ret" ELSE "exc", i)

\* optimize as `return self._optimize(mol)`: the cache is bypassed.
optimize_uncached(i, m, st, orc) ==
    Traced(i, _optimize(i, m, Log(Log(st, "call", i), "run", i), orc))

\* optimize that reads the cache and never records a molecule in it.
optimize_never_records(i, m, st, orc) ==
    LET r == _cache_result(i, m, Log(st, "call", i), orc)
    IN  Traced(i, [r EXCEPT !.cache = st.cache])

\* optimize that uses the cache whatever use_cache says.
optimize_ignores_flag(i, m, st, orc) ==
    LET s0 == Log(st, "call", i)
        r == _optimize(i, m, Log(s0, "run", i), orc)
    IN  Traced(i, IF m \in st.cache[i] THEN Log(s0, "skip", i)
                  ELSE IF r.exc # "none" THEN r
                  ELSE [r EXCEPT !.cache[i] = @ \cup {m}])

\* optimize that records the molecule although the real operation raised.
optimize_caches_failure(i, m, st, orc) ==
    LET r == _cache_result(i, m, Log(st, "call", i), orc)
    IN  Traced(i, IF use_cache[i]
                  THEN [r EXCEPT !.cache[i] = @ \cup {m}]
                  ELSE r)

\* optimize with one cache per class: a molecule cached by any instance of
\* the class is skipped.
optimize_shared_cache(i, m, st, orc) ==
    LET s0 == Log(st, "call", i)
        hit == \E j \in Insts : /\ Config[j].kind = Config[i].kind
                                /\ m \in st.cache[j]
    IN  Traced(i, IF use_cache[i] /\ hit
                  THEN Log(s0, "skip", i)
                  ELSE _cache_result(i, m, s0, orc))

\* Optimizer.optimize: return self._cache_result(self._optimize, mol)
optimize(i, m, st, orc) ==
    Traced(i, _cache_result(i, m, Log(st, "call", i), orc))

(* ------------------------------ the calls ------------------------------ *)

\* The answers the environment can give during optimize on instance o.
OracleFor(o) ==
    [fail : SUBSET {i \in Desc(o) : IsLeaf(i)},
     rand : [{i \in Desc(o) : Config[i].kind = "RaisingCalculator"} -> Draws],
     windows : [UNION {Range(Config[i].optimizers) :
                   i \in {j \in Desc(o) :
                             Config[j].kind = "CageOptimizerSequence"}}
                -> WindowRes]]

NoOracle == [fail |-> {}, rand |-> <<>>, windows |-> <<>>]

\* The answers of orc that the call with events es asked for: a leaf that
\* ran, a RaisingCalculator that ran, a window check that was made.
Asked(orc, es) ==
    LET ran(i) == \E k \in 1..Len(es) : es[k] = <<"run", i>>
        checked(c) == \E k \in 1..Len(es) :
                         es[k] \in {<<"windows_ok", c>>, <<"collapsed", c>>}
    IN  [fail |-> {i \in orc.fail : ran(i)},
         rand |-> [i \in {j \in DOMAIN orc.rand : ran(j)} |-> orc.rand[i]],
         windows |-> [c \in {d \in DOMAIN orc.windows : checked(d)}
                        |-> orc.windows[c]]]

RECURSIVE SumLen(_, _)
SumLen(g, k) == IF k = 0 THEN 0 ELSE Len(g[k]) + SumLen(g, k - 1)

\* Geometry updates made so far, all molecules together.
TotalOps(g) == SumLen(g, NumMols)

\* The state a call starts from.
Entry == [geom |-> geom, cache |-> cache, events |-> <<>>, exc |-> "none"]

NoCall == [op |-> "none", inst |-> "None", mol |-> 0]

Init ==
    /\ scenario \in Scenarios
    /\ use_cache \in [Insts -> BOOLEAN]
    /\ \A i \in Insts \ Caching(scenario) : use_cache[i] = FALSE
    /\ cache = [i \in Insts |-> {}]
    /\ geom = [m \in Mols |-> <<>>]
    /\ call = NoCall
    /\ oracle = NoOracle
    /\ events = <<>>
    /\ exc = "none"
    /\ collapsed = [i \in Insts |-> {}]
    /\ XtbUnused
    /\ EaUnused
    /\ ProbeUnused

\* o.optimize(m), called by the user.
Optimize(o, m) ==
    /\ call = NoCall
    /\ \E orc \in OracleFor(o) :
        \E r \in {optimize(o, m, Entry, orc)} :
            /\ TotalOps(r.geom) <= MaxOps
            /\ geom' = r.geom
            /\ cache' = r.cache
            /\ events' = r.events
            /\ exc' = r.exc
            /\ oracle' = Asked(orc, r.events)
            /\ call' = [op |-> "optimize", inst |-> o, mol |-> m]
            /\ collapsed' = [i \in Insts |->
                                IF use_cache[i] /\ ExitedEarly(i, r.events)
                                THEN collapsed[i] \cup {m}
                                ELSE collapsed[i]]
            /\ UNCHANGED <<scenario, use_cache>>
            /\ UNCHANGED xvars
            /\ UNCHANGED evars
            /\ UNCHANGED fvars

\* o.add_to_cache(m): mark m as processed without running anything.
AddToCache(o, m) ==
    /\ call = NoCall
    /\ cache' = [cache EXCEPT ![o] = @ \cup {m}]
    /\ call' = [op |-> "add_to_cache", inst |-> o, mol |-> m]
    /\ oracle' = NoOracle
    /\ events' = <<>>
    /\ exc' = "none"
    /\ UNCHANGED <<scenario, use_cache, geom, collapsed>>
    /\ UNCHANGED xvars
    /\ UNCHANGED evars
    /\ UNCHANGED fvars

\* o.set_cache_use(b)
SetCacheUse(o, b) ==
    /\ call = NoCall
    /\ use_cache' = [use_cache EXCEPT ![o] = b]
    /\ call' = [op |-> "set_cache_use", inst |-> o, mol |-> 0]
    /\ oracle' = NoOracle
    /\ events' = <<>>
    /\ exc' = "none"
    /\ UNCHANGED <<scenario, cache, geom, collapsed>>
    /\ UNCHANGED xvars
    /\ UNCHANGED evars
    /\ UNCHANGED fvars

\* The caller goes on: what the last call did is looked at no longer.
Continue ==
    /\ call # NoCall
    /\ call' = NoCall
    /\ oracle' = NoOracle
    /\ events' = <<>>
    /\ exc' = "none"
    /\ UNCHANGED <<scenario, use_cache, cache, geom, collapsed>>
    /\ UNCHANGED xvars
    /\ UNCHANGED evars
    /\ UNCHANGED fvars

Next ==
    \/ \E o \in Live(scenario), m \in Mols : Optimize(o, m)
    \/ \E o \in Caching(scenario), m \in Mols : AddToCache(o, m)
    \/ \E o \in Caching(scenario), b \in BOOLEAN : SetCacheUse(o, b)
    \/ Continue

Spec == Init /\ [][Next]_vars

(* --------------------------- reading a call ---------------------------- *)

\* Whether event ev of instance i is among the events es.
Has(es, ev, i) == \E k \in 1..Len(es) : es[k] = <<ev, i>>

\* Where event ev of instance i first is in es; 0 when it is not there.
Pos(es, ev, i) ==
    IF Has(es, ev, i)
    THEN CHOOSE k \in 1..Len(es) :
            /\ es[k] = <<ev, i>>
            /\ \A j \in 1..(k - 1) : es[j] # <<ev, i>>
    ELSE 0

\* The events of a call that found the molecule in the cache.
SkipEvents(i) == <<(<<"call", i>>), (<<"skip", i>>), (<<"ret", i>>)>>

(* ------------------------------- claims -------------------------------- *)

\* C1: on an instance with caching enabled, once optimize(m) has returned
\* normally m is in the instance's cache, an entry never leaves a cache, and
\* an optimize(m) that finds m in the cache does nothing: the real operation
\* (_optimize) is not run, no molecule and no cache changes and nothing is
\* raised. So the real operation returns normally at most once for m.
C1_CachedCallIsNoOp ==
    [][/\ \A i \in Insts : cache[i] \subseteq cache'[i]
       /\ call'.op = "optimize" =>
            \A i \in Insts :
                /\ (use_cache[i] /\ call'.mol \in cache[i]) =>
                        ~Has(events', "run", i)
                /\ (use_cache[i] /\ Has(events', "ret", i)) =>
                        call'.mol \in cache'[i]
                /\ (i = call'.inst /\ use_cache[i] /\ call'.mol \in cache[i]) =>
                        /\ geom' = geom
                        /\ cache' = cache
                        /\ exc' = "none"
                        /\ events' = SkipEvents(i)]_vars

\* A second optimize(m) on a caching instance whose first one ran.
C1_Witness ==
    /\ scenario = "cache"
    /\ call = [op |-> "optimize", inst |-> "mmff", mol |-> 1]
    /\ use_cache["mmff"]
    /\ ~use_cache["mmff2"]
    /\ cache["mmff2"] = {}
    /\ geom[1] = <<"MMFF">>
    /\ events = SkipEvents("mmff")

\* C2: on an instance with caching disabled every optimize(m) runs the real
\* operation, whatever is in the cache and whatever was called before, and
\* optimize calls leave that instance's cache as it is: the cache of an
\* instance that never had caching enabled stays empty.
C2_UncachedCallAlwaysRuns ==
    [][call'.op = "optimize" =>
            \A i \in Insts :
                ~use_cache[i] =>
                    /\ Has(events', "call", i) => Has(events', "run", i)
                    /\ cache'[i] = cache[i]
                    /\ (i = call'.inst /\ IsLeaf(i)) =>
                          \/ exc' = "Exception" /\ geom' = geom
                          \/ /\ exc' = "none"
                             /\ geom' = [geom EXCEPT ![call'.mol] =
                                            Append(@, Config[i].kind)]]_vars
    /\ [](\A i \in Insts \ Caching(scenario) : cache[i] = {})

\* A third optimize(m) in a row on a non-caching instance runs again, and
\* its cache is still empty.
C2_Witness ==
    /\ scenario = "cache"
    /\ call = [op |-> "optimize", inst |-> "mmff", mol |-> 1]
    /\ ~use_cache["mmff"]
    /\ cache["mmff"] = {}
    /\ cache["mmff2"] = {}
    /\ geom[1] = <<"MMFF", "MMFF", "MMFF">>
    /\ Has(events, "update", "mmff")

\* C3: when the real operation raises in optimize(m) on a caching instance,
\* the caller gets the exception and m is not put in the cache; a molecule
\* enters a cache only by a real operation that returned normally on a
\* caching instance, or by add_to_cache; and an optimize(m) that does not
\* find m in the cache runs the real operation.
C3_FailureIsNotCached ==
    [][/\ call'.op = "optimize" =>
            \A i \in Insts :
                /\ Has(events', "exc", i) => cache'[i] = cache[i]
                /\ cache'[i] # cache[i] =>
                        /\ use_cache[i]
                        /\ cache'[i] = cache[i] \cup {call'.mol}
                        /\ Pos(events', "run", i) > 0
                        /\ Pos(events', "ret", i) > Pos(events', "run", i)
                /\ (Has(events', "call", i) /\ call'.mol \notin cache[i]) =>
                        Has(events', "run", i)
                /\ (i = call'.inst /\ Has(events', "exc", i)) => exc' # "none"
                /\ (i = call'.inst /\ IsLeaf(i) /\ Has(events', "run", i)
                        /\ i \in oracle'.fail) =>
                        /\ exc' = "Exception"
                        /\ cache'[i] = cache[i]
       /\ call'.op \notin {"optimize", "add_to_cache"} => cache' = cache]_vars

\* The real operation of a caching instance raised; the molecule is not in
\* its cache.
C3_Witness ==
    /\ scenario = "cache"
    /\ call = [op |-> "optimize", inst |-> "mmff", mol |-> 1]
    /\ use_cache["mmff"]
    /\ Has(events, "run", "mmff")
    /\ exc = "Exception"
    /\ 1 \notin cache["mmff"]
    /\ geom[1] = <<>>

\* C4: add_to_cache(m) puts m in the instance's cache and changes nothing
\* else; from then on, while caching is enabled, optimize(m) on the
\* instance does not run the real operation, leaves m's geometry as it is
\* and leaves m in the cache.
C4_AddToCacheSkipsOptimize ==
    [][/\ call'.op = "add_to_cache" =>
            /\ cache' = [cache EXCEPT ![call'.inst] = @ \cup {call'.mol}]
            /\ geom' = geom
            /\ use_cache' = use_cache
            /\ exc' = "none"
       /\ (/\ call'.op = "optimize"
           /\ use_cache[call'.inst]
           /\ call'.mol \in cache[call'.inst]) =>
            /\ ~Has(events', "run", call'.inst)
            /\ ~Has(events', "update", call'.inst)
            /\ geom'[call'.mol] = geom[call'.mol]
            /\ call'.mol \in cache'[call'.inst]]_vars

\* optimize(m) skipped on a molecule no optimizer has ever updated: its
\* cache entry can only come from add_to_cache.
C4_Witness ==
    /\ scenario = "cache"
    /\ call = [op |-> "optimize", inst |-> "mmff", mol |-> 1]
    /\ use_cache["mmff"]
    /\ geom[1] = <<>>
    /\ events = SkipEvents("mmff")

\* C5: a call on instance A changes the cache of no instance other than A
\* and the calculators A invokes, and whether B.optimize(m) runs the real
\* operation depends on B's cache alone: with m in A's cache and not in
\* B's, B.optimize(m) runs it.
C5_CachePerInstance ==
    [][/\ call'.op \in {"optimize", "add_to_cache"} =>
            \A b \in Insts :
                (b # call'.inst /\ ~Has(events', "call", b)) =>
                    cache'[b] = cache[b]
       /\ call'.op = "optimize" =>
            \A b \in Insts :
                (Has(events', "call", b) /\ call'.mol \notin cache[b]) =>
                    Has(events', "run", b)]_vars

\* mmff2 optimizes a molecule that is in mmff's cache and not in its own.
C5_Witness ==
    /\ scenario = "cache"
    /\ call = [op |-> "optimize", inst |-> "mmff2", mol |-> 1]
    /\ use_cache["mmff"]
    /\ use_cache["mmff2"]
    /\ 1 \in cache["mmff"]
    /\ Has(events, "update", "mmff2")
    /\ geom[1] = <<"MMFF">>

\* The events of es that are molecule updates.
Updates(es) == SelectSeq(es, LAMBDA e : e[1] = "update")

\* What the updates among es append to a molecule's geometry.
UpdateKinds(es) ==
    [k \in 1..Len(Updates(es)) |-> Config[Updates(es)[k][2]].kind]

\* How many times event ev of instance i is in es.
Count(es, ev, i) == Cardinality({k \in 1..Len(es) : es[k] = <<ev, i>>})

\* Whether instance i raises on every molecule, whatever the environment
\* answers, from the present state.
AlwaysFails(i) ==
    \A m \in Mols, orc \in OracleFor(i) :
        optimize(i, m, Entry, orc).exc # "none"

\* Whether the try calculator of TryCatch t raised during the call es
\* without any molecule update before the exception was caught.
FailedClean(es, t) ==
    /\ Has(es, "caught", t)
    /\ \A k \in 1..Pos(es, "caught", t) : es[k][1] # "update"

\* C6, as claimed: for every TryCatch whose try calculator always fails,
\* optimize(m) does not raise, leaves the molecules as the catch
\* calculator's optimize(m) alone would, and the try branch changed nothing.
C6_AsClaimed ==
    [][(/\ call'.op = "optimize"
        /\ Config[call'.inst].kind = "TryCatch"
        /\ Config[call'.inst].catch_calculator # "None"
        /\ AlwaysFails(Config[call'.inst].try_calculator)) =>
            LET t == call'.inst
                alone == optimize(Config[t].catch_calculator, call'.mol,
                                  Entry, oracle')
            IN  /\ exc' = "none"
                /\ geom' = alone.geom
                /\ FailedClean(events', t)]_vars

\* C6, amended: a RaisingCalculator with fail_chance=1 as try calculator
\* fails and changes no molecule; and whenever the try calculator fails
\* without having changed a molecule, optimize(m) leaves the molecules and
\* the other instances' caches as the catch calculator's optimize(m) alone
\* would, and raises exactly what that call alone would raise.
C6_TryCatchCleanFallback ==
    [][(/\ call'.op = "optimize"
        /\ Config[call'.inst].kind = "TryCatch"
        /\ Config[call'.inst].catch_calculator # "None") =>
            LET t == call'.inst
                try == Config[t].try_calculator
                alone == optimize(Config[t].catch_calculator, call'.mol,
                                  Entry, oracle')
            IN  /\ (/\ Config[try].kind = "RaisingCalculator"
                    /\ Config[try].fail_chance = 100) =>
                        FailedClean(events', t)
                /\ FailedClean(events', t) =>
                        /\ geom' = alone.geom
                        /\ exc' = alone.exc
                        /\ \A j \in Insts \ {t} : cache'[j] = alone.cache[j]]_vars

\* TryCatch(always_raiser, success): the try branch raised, the catch
\* branch updated the molecule, nothing is raised.
C6_Witness ==
    /\ call = [op |-> "optimize", inst |-> "try_catch", mol |-> 1]
    /\ Has(events, "exc", "always_raiser")
    /\ FailedClean(events, "try_catch")
    /\ Has(events, "update", "etkdg")
    /\ geom[1] = <<"ETKDG">>
    /\ exc = "none"

\* C7: in every TryCatch that runs, the try calculator is called first; if
\* it returns, the TryCatch returns at once and the catch calculator is not
\* called; if it raises, the exception is caught and the catch calculator,
\* when there is one, is called next and its outcome is the TryCatch's
\* outcome; with no catch calculator the TryCatch returns normally. A
\* TryCatch raises only what its catch calculator raised.
C7_TryCatchStateMachine ==
    call.op = "optimize" =>
        \A t \in Insts :
            (Config[t].kind = "TryCatch" /\ Has(events, "run", t)) =>
                LET tr == Config[t].try_calculator
                    ca == Config[t].catch_calculator
                    q == Pos(events, "caught", t)
                IN  /\ events[Pos(events, "run", t) + 1] = <<"call", tr>>
                    /\ Count(events, "call", tr) = 1
                    /\ Has(events, "ret", tr) =>
                          /\ q = 0
                          /\ events[Pos(events, "ret", tr) + 1] = <<"ret", t>>
                          /\ ca # "None" => ~Has(events, "call", ca)
                    /\ Has(events, "exc", tr) =>
                          /\ q = Pos(events, "exc", tr) + 1
                          /\ IF ca = "None"
                             THEN events[q + 1] = <<"ret", t>>
                             ELSE /\ events[q + 1] = <<"call", ca>>
                                  /\ Count(events, "call", ca) = 1
                                  /\ Has(events, "exc", ca)
                                        <=> Has(events, "exc", t)
                                  /\ Has(events, "ret", ca)
                                        <=> Has(events, "ret", t)
                    /\ Has(events, "exc", t) =>
                          /\ ca # "None"
                          /\ q > 0
                          /\ events[Pos(events, "exc", t) - 1] = <<"exc", ca>>
                    /\ t = call.inst =>
                          (exc # "none" <=> Has(events, "exc", t))

\* TryCatch(failing_seq, mmff): the try branch raised, then the catch
\* calculator raised, and that exception left the TryCatch.
C7_Witness ==
    /\ call = [op |-> "optimize", inst |-> "try_seq", mol |-> 1]
    /\ Has(events, "exc", "failing_seq")
    /\ Has(events, "caught", "try_seq")
    /\ Has(events, "exc", "mmff")
    /\ exc = "Exception"

\* C8: a RaisingCalculator with fail_chance=1 raises RaisingCalculatorError
\* on every optimize without calling its calculator, and changes neither a
\* molecule nor a cache; one with fail_chance=0 calls its calculator on
\* every optimize, and its outcome is that calculator's outcome, never a
\* RaisingCalculatorError of its own.
C8_RaisingCalculatorExtremes ==
    [][call'.op = "optimize" =>
        \A r \in Insts :
            (Config[r].kind = "RaisingCalculator" /\ Has(events', "run", r)) =>
                LET c == Config[r].calculator
                    p == Pos(events', "run", r)
                    alone == optimize(c, call'.mol, Entry, oracle')
                IN  /\ Config[r].fail_chance = 100 =>
                          /\ events'[p + 1] = <<"exc", r>>
                          /\ r = call'.inst =>
                                /\ exc' = "RaisingCalculatorError"
                                /\ geom' = geom
                                /\ cache' = cache
                    /\ Config[r].fail_chance = 0 =>
                          /\ events'[p + 1] = <<"call", c>>
                          /\ Has(events', "exc", r) <=> Has(events', "exc", c)
                          /\ r = call'.inst =>
                                /\ exc' # "RaisingCalculatorError"
                                /\ exc' = alone.exc
                                /\ geom' = alone.geom]_vars

\* The always-raising calculator raised on a molecule that was optimized
\* before, and the molecule is as it was.
C8_Witness ==
    /\ call = [op |-> "optimize", inst |-> "always_raiser", mol |-> 1]
    /\ exc = "RaisingCalculatorError"
    /\ ~Has(events, "call", "etkdg")
    /\ geom[1] = <<"ETKDG">>

\* The never-raising calculator delegated and the molecule was updated.
C8_WitnessDelegates ==
    /\ call = [op |-> "optimize", inst |-> "never_raiser", mol |-> 1]
    /\ exc = "none"
    /\ Has(events, "update", "mmff")

\* C9: a Sequence that runs calls its children in listed order, each at
\* most once and each only after the one before it returned; when a child
\* raises the Sequence raises at once and no later child is called; when
\* none raises every child is called exactly once and the Sequence returns.
\* Every update a child made stays in the molecule, also when a later
\* child raises.
C9_SequenceOrder ==
    [][call'.op = "optimize" =>
        /\ geom' = [geom EXCEPT ![call'.mol] = @ \o UpdateKinds(events')]
        /\ \A s \in Insts :
            (Config[s].kind = "Sequence" /\ Has(events', "run", s)) =>
                LET cs == Config[s].optimizers
                    n == Len(cs)
                IN  /\ events'[Pos(events', "run", s) + 1] = <<"call", cs[1]>>
                    /\ \A k \in 1..n :
                        /\ Count(events', "call", cs[k]) <= 1
                        /\ (k > 1 /\ Has(events', "call", cs[k])) =>
                              /\ Has(events', "ret", cs[k - 1])
                              /\ Pos(events', "call", cs[k])
                                    = Pos(events', "ret", cs[k - 1]) + 1
                        /\ Has(events', "ret", cs[k]) =>
                              events'[Pos(events', "ret", cs[k]) + 1] =
                                  IF k < n THEN <<"call", cs[k + 1]>>
                                  ELSE <<"ret", s>>
                        /\ Has(events', "exc", cs[k]) =>
                              /\ events'[Pos(events', "exc", cs[k]) + 1]
                                    = <<"exc", s>>
                              /\ \A l \in (k + 1)..n :
                                    ~Has(events', "call", cs[l])
                    /\ (\A k \in 1..n : ~Has(events', "exc", cs[k])) =>
                          /\ \A k \in 1..n : Count(events', "call", cs[k]) = 1
                          /\ Has(events', "ret", s)]_vars

\* Sequence(etkdg, maybe_raiser, mmff): the second child raised after the
\* first updated the molecule; the third was not called and the update is
\* in the molecule.
C9_Witness ==
    /\ call = [op |-> "optimize", inst |-> "sequence", mol |-> 1]
    /\ Has(events, "update", "etkdg")
    /\ Has(events, "exc", "maybe_raiser")
    /\ ~Has(events, "call", "mmff")
    /\ exc = "RaisingCalculatorError"
    /\ geom[1] = <<"ETKDG">>

\* Every call stays within what the model's instances allow the claims to
\* read off the events: no instance is called twice in one call.
OncePerCall == \A i \in Insts : Count(events, "call", i) <= 1

\* All three children ran, in order.
C9_WitnessAll ==
    /\ call = [op |-> "optimize", inst |-> "sequence", mol |-> 1]
    /\ exc = "none"
    /\ geom[1] = <<"ETKDG", "UFF", "MMFF">>

\* Whether the window analysis made before child c of cage sequence g, as
\* the environment answered it, lets the child run.
WindowsPass(g, c, orc) ==
    /\ orc.windows[c] # WindowsNone
    /\ orc.windows[c] = Config[g].num_expected_windows

\* The two events a window check can leave.
CheckOf(c) == {<<"windows_ok", c>>, <<"collapsed", c>>}

\* C10: a CageOptimizerSequence that runs makes the window check before
\* every child it calls, the first check first and the next one right
\* after a child returned. When the check before child k fails (no windows,
\* or a count other than num_expected_windows) the sequence returns
\* normally at once, children k..n are not called and the molecule holds
\* the updates of children 1..k-1 only; when every check passes and no child
\* raises, every child is called exactly once, in listed order.
C10_CageSequenceStopsWhenCollapsed ==
    [][call'.op = "optimize" =>
        \A g \in Insts :
            (Config[g].kind = "CageOptimizerSequence"
                /\ Has(events', "run", g)) =>
                LET cs == Config[g].optimizers
                    n == Len(cs)
                    called == {k \in 1..n : Has(events', "call", cs[k])}
                IN  /\ events'[Pos(events', "run", g) + 1] \in CheckOf(cs[1])
                    /\ \A k \in 1..n :
                        /\ Count(events', "call", cs[k]) <= 1
                        /\ Has(events', "call", cs[k]) =>
                              /\ Pos(events', "windows_ok", cs[k])
                                    = Pos(events', "call", cs[k]) - 1
                              /\ \A l \in 1..(k - 1) :
                                    /\ Has(events', "ret", cs[l])
                                    /\ Pos(events', "ret", cs[l])
                                          < Pos(events', "call", cs[k])
                        /\ Has(events', "windows_ok", cs[k]) =>
                              /\ WindowsPass(g, cs[k], oracle')
                              /\ events'[Pos(events', "windows_ok", cs[k]) + 1]
                                    = <<"call", cs[k]>>
                        /\ Has(events', "collapsed", cs[k]) =>
                              /\ ~WindowsPass(g, cs[k], oracle')
                              /\ events'[Pos(events', "collapsed", cs[k]) + 1]
                                    = <<"ret", g>>
                              /\ called = 1..(k - 1)
                              /\ g = call'.inst =>
                                    /\ exc' = "none"
                                    /\ geom' = [geom EXCEPT ![call'.mol] =
                                          @ \o [l \in 1..(k - 1) |->
                                                  Config[cs[l]].kind]]
                        /\ Has(events', "ret", cs[k]) =>
                              IF k < n
                              THEN events'[Pos(events', "ret", cs[k]) + 1]
                                      \in CheckOf(cs[k + 1])
                              ELSE events'[Pos(events', "ret", cs[k]) + 1]
                                      = <<"ret", g>>
                    /\ (/\ \A k \in 1..n : ~Has(events', "collapsed", cs[k])
                        /\ \A k \in 1..n : ~Has(events', "exc", cs[k])) =>
                          /\ called = 1..n
                          /\ g = call'.inst =>
                                /\ exc' = "none"
                                /\ geom' = [geom EXCEPT ![call'.mol] =
                                      @ \o [l \in 1..n |->
                                              Config[cs[l]].kind]]]_vars

\* CageOptimizerSequence(4, (etkdg, mmff)): the cage had its 4 windows
\* before etkdg and another count before mmff; etkdg ran, mmff did not.
C10_Witness ==
    /\ scenario = "cage"
    /\ call = [op |-> "optimize", inst |-> "cage_sequence", mol |-> 1]
    /\ oracle.windows["etkdg"] = 4
    /\ oracle.windows["mmff"] = 3
    /\ Has(events, "update", "etkdg")
    /\ Has(events, "collapsed", "mmff")
    /\ ~Has(events, "call", "mmff")
    /\ exc = "none"
    /\ geom[1] = <<"ETKDG">>

\* Every check passed and both children ran.
C10_WitnessAll ==
    /\ scenario = "cage"
    /\ call = [op |-> "optimize", inst |-> "cage_sequence", mol |-> 1]
    /\ exc = "none"
    /\ geom[1] = <<"ETKDG", "MMFF">>

(* ================================ XTB =================================== *)
(* XTB.optimize as the steps of one call: entry (cache look-up, clearing   *)
(* the incomplete mark), the output directory, getcwd, chdir, and per      *)
(* attempt the input file, the executable and the checks; then the finally *)
(* clause and the return. One step is one stretch of code between two      *)
(* places where another thread can change the working directory.           *)

\* str.lower() on the solvent names a caller passes.
Lower(s) ==
    CASE s = "H2O" -> "h2o"
      [] s = "DMF" -> "dmf"
      [] OTHER -> s

\* The version-specific whitelist of solvents.
is_valid_xtb_solvent(gfn_version, solvent) ==
    CASE gfn_version = 1 -> solvent \in {"h2o"}
      [] gfn_version = 2 -> solvent \in {"h2o", "dmf"}
      [] OTHER -> FALSE

\* The arguments a caller passes to XTB(...); those not listed, and those
\* a mode does not vary, are at their defaults.
CtorArgs(mode) ==
    CASE mode = "config" ->
            [gfn_version : {0, 1, 2},
             solvent : {"None", "H2O", "h2o", "DMF", "brine"},
             max_runs : {2}, calculate_hessian : {TRUE}, use_cache : {FALSE}]
      [] mode = "serial" ->
            [gfn_version : {2}, solvent : {"None"},
             max_runs : 0..MaxRuns, calculate_hessian : BOOLEAN,
             use_cache : BOOLEAN]
      [] OTHER ->
            [gfn_version : {2}, solvent : {"None"},
             max_runs : {1}, calculate_hessian : {TRUE}, use_cache : {FALSE}]

\* self after __init__ returned.
XtbSelf(a, t, solvent, max_runs) ==
    [kind |-> "XTB",
     gfn_version |-> ToString(a.gfn_version),
     solvent |-> solvent,
     max_runs |-> max_runs,
     calculate_hessian |-> a.calculate_hessian,
     use_cache |-> a.use_cache,
     output_dir |-> t,
     incomplete |-> {},
     cache |-> {}]

Constructed(inst, warned) == [exc |-> "none", inst |-> inst, warned |-> warned]

Refused(e) == [exc |-> e, inst |-> NoXtb, warned |-> FALSE]

\* The hessian rule of __init__ and what follows it.
XTB_init_hessian_keeps_runs(a, t, solvent) ==
    Constructed(XtbSelf(a, t, solvent, a.max_runs), FALSE)

XTB_init_hessian(a, t, solvent) ==
    IF ~a.calculate_hessian /\ a.max_runs # 1
    THEN Constructed(XtbSelf(a, t, solvent, 1), TRUE)
    ELSE Constructed(XtbSelf(a, t, solvent, a.max_runs), FALSE)

\* XTB.__init__ called by caller t with arguments a.
XTB_init_any_solvent(a, t) ==
    XTB_init_hessian(a, t, IF a.solvent = "None" THEN "None" ELSE Lower(a.solvent))

XTB_init(a, t) ==
    IF a.solvent # "None"
    THEN LET solvent == Lower(a.solvent)
         IN  IF a.gfn_version = 0
             THEN Refused("XTBInvalidSolventError")
             ELSE IF ~is_valid_xtb_solvent(a.gfn_version, solvent)
                  THEN Refused("XTBInvalidSolventError")
                  ELSE XTB_init_hessian(a, t, solvent)
    ELSE XTB_init_hessian(a, t, "None")

\* shutil.rmtree(d)
rmtree(f, d) == [e \in {e \in DOMAIN f : ~IsPrefix(d, e)} |-> f[e]]

\* os.mkdir(d)
mkdir(f, d) == [e \in DOMAIN f \cup {d} |-> IF e = d THEN EmptyDir ELSE f[e]]

\* os.chdir(d) in process p
chdir_every_process(w, p, d) == [q \in DOMAIN w |-> d]

chdir(w, p, d) == [w EXCEPT ![p] = d]

\* Writing file n with content c in directory d.
WriteFile(f, d, n, c) == [f EXCEPT ![d][n] = c]

\* What the executable can leave in its directory: each marker there or
\* not, each geometry file not there, left as it was, or written anew, and
\* the output with or without a negative frequency past the first six.
\* With two calls at once, and with calls on several molecules, each makes
\* one attempt, and the executable is one that writes xtbopt.xyz and no
\* restart file, and converges or not.
ExeChoices(inst, mode) ==
    IF mode \in {"threads", "processes", "molecules"}
    THEN [ok : BOOLEAN, nc : {FALSE}, coord : {"absent"},
          xyz : {"written"}, neg : BOOLEAN]
    ELSE [ok : BOOLEAN, nc : BOOLEAN,
          coord : {"absent", "kept", "written"},
          xyz : {"absent", "kept", "written"},
          neg : BOOLEAN]

Left(how, old, new) ==
    CASE how = "absent" -> Absent
      [] how = "kept" -> old
      [] OTHER -> new

\* The directory after open(out_file, 'w') and sp.call(cmd) ran in it.
AfterExe(dir, t, k, ch) ==
    [n \in FileNames |->
        CASE n = OUT(k) -> Content(t, k, ch.neg)
          [] n = XTBOPTOK -> IF ch.ok THEN Marker ELSE Absent
          [] n = NOT_CONVERGED -> IF ch.nc THEN Marker ELSE Absent
          [] n = COORD -> Left(ch.coord, dir[n], Content(t, k, FALSE))
          [] n = OUTPUT_XYZ -> Left(ch.xyz, dir[n], Content(t, k, FALSE))
          [] OTHER -> dir[n]]

\* XTB._is_complete(out_file) read in directory dir, after attempt k.
_is_complete_ignores_markers(inst, dir, k) ==
    IF inst.calculate_hessian /\ dir[OUT(k)] # Absent
    THEN [exc |-> "none", value |-> ~dir[OUT(k)].neg]
    ELSE [exc |-> "none", value |-> dir[XTBOPTOK] # Absent]

_is_complete_always_reads_frequencies(inst, dir, k) ==
    IF dir[XTBOPTOK] # Absent
    THEN IF dir[OUT(k)] = Absent
         THEN [exc |-> "FileNotFoundError", value |-> FALSE]
         ELSE [exc |-> "none", value |-> ~dir[OUT(k)].neg]
    ELSE IF dir[NOT_CONVERGED] # Absent
         THEN [exc |-> "XTBConvergenceError", value |-> FALSE]
         ELSE [exc |-> "XTBOptimizerError", value |-> FALSE]

_is_complete(inst, dir, k) ==
    IF dir[XTBOPTOK] # Absent
    THEN IF inst.calculate_hessian
         THEN \* XTBExtractor opens the output file
              IF dir[OUT(k)] = Absent
              THEN [exc |-> "FileNotFoundError", value |-> FALSE]
              ELSE [exc |-> "none", value |-> ~dir[OUT(k)].neg]
         ELSE [exc |-> "none", value |-> TRUE]
    ELSE IF dir[NOT_CONVERGED] # Absent
         THEN [exc |-> "XTBConvergenceError", value |-> FALSE]
         ELSE [exc |-> "XTBOptimizerError", value |-> FALSE]

\* What an attempt's checks found in the working directory.
Seen(dir, k) ==
    [ok |-> dir[XTBOPTOK] # Absent, nc |-> dir[NOT_CONVERGED] # Absent,
     coord |-> dir[COORD], xyz |-> dir[OUTPUT_XYZ], out |-> dir[OUT(k)]]

\* mol.update_from_file(n), read in directory dir: the geometry it gives.
FromFile(dir, n) == [file |-> n[1], content |-> dir[n]]

\* The molecule caller t passes to optimize: its own when two calls run
\* at once, any in the mode of several molecules, else always the same one.
MolsOf(mode, t) ==
    CASE mode \in {"threads", "processes"} -> {t}
      [] mode = "molecules" -> Mols
      [] OTHER -> {1}

\* The optimizers of sections 4.1 to 4.3 take no part in a run of XTB.
CoreUnused ==
    /\ scenario = "xtb"
    /\ use_cache = [i \in Insts |-> FALSE]
    /\ cache = [i \in Insts |-> {}]
    /\ geom = [m \in Mols |-> <<>>]
    /\ call = NoCall
    /\ oracle = NoOracle
    /\ events = <<>>
    /\ exc = "none"
    /\ collapsed = [i \in Insts |-> {}]

XtbInit ==
    /\ CoreUnused
    /\ EaUnused
    /\ ProbeUnused
    /\ xmode \in XtbModes
    /\ ctor = [t \in Callers |-> NoCtor]
    /\ xinst = [t \in Callers |-> NoXtb]
    /\ xgeom = [m \in Mols |-> InitialGeom]
    /\ cwd = [p \in Callers |-> Home]
    /\ fs = [d \in {Home} |-> EmptyDir]
    /\ pc = [t \in Callers |-> "idle"]
    /\ frame = [t \in Callers |-> NoFrame]

\* Caller t constructs its XTB instance.
Construct(t) ==
    /\ t \in Active(xmode)
    /\ ~ctor[t].made
    /\ \E a \in CtorArgs(xmode) :
        LET r == XTB_init(a, t)
        IN  /\ ctor' = [ctor EXCEPT ![t] =
                            [made |-> TRUE, args |-> a, exc |-> r.exc,
                             warned |-> r.warned]]
            /\ xinst' = [xinst EXCEPT ![t] = r.inst]
    /\ UNCHANGED <<cvars, evars, fvars, xmode, xgeom, cwd, fs, pc, frame>>

\* "Remove mol from self.incomplete if present."
ClearMark_keeps(inst, m) == inst

ClearMark_clears_all(inst, m) == [inst EXCEPT !.incomplete = {}]

ClearMark(inst, m) == [inst EXCEPT !.incomplete = @ \ {m}]

\* Caller t calls optimize(m) on its instance: Optimizer.optimize, the
\* cache look-up, and the first statements of XTB._optimize.
XtbOptimize(t, m) ==
    /\ pc[t] = "idle"
    /\ xinst[t] # NoXtb
    /\ frame[t].n < CallsIn(xmode)
    /\ LET f == [Frame(m, frame[t].n + 1, cwd[ProcOf(xmode, t)])
                    EXCEPT !.marked = m \in xinst[t].incomplete,
                           !.prev = frame[t].prev]
       IN  IF xinst[t].use_cache /\ m \in xinst[t].cache
           THEN /\ frame' = [frame EXCEPT ![t] = [f EXCEPT !.skipped = TRUE]]
                /\ pc' = [pc EXCEPT ![t] = "done"]
                /\ UNCHANGED xinst
           ELSE /\ frame' = [frame EXCEPT ![t] = f]
                /\ xinst' = [xinst EXCEPT ![t] = ClearMark(@, m)]
                /\ pc' = [pc EXCEPT ![t] = "mkdir"]
    /\ UNCHANGED <<cvars, evars, fvars, xmode, ctor, xgeom, cwd, fs>>

Mkdir_without_wipe(t) ==
    /\ pc[t] = "mkdir"
    /\ LET d == abspath(cwd[ProcOf(xmode, t)], xinst[t].output_dir)
       IN  \/ /\ fs' = IF d \in DOMAIN fs THEN fs ELSE mkdir(fs, d)
              /\ frame' = [frame EXCEPT ![t].output_dir = d,
                                         ![t].prev = NoPrev]
              /\ pc' = [pc EXCEPT ![t] = "getcwd"]
           \/ /\ frame' = [frame EXCEPT ![t].output_dir = d,
                                         ![t].exc = "OSError",
                                         ![t].prev = NoPrev]
              /\ pc' = [pc EXCEPT ![t] = "raised"]
              /\ UNCHANGED fs
    /\ UNCHANGED <<cvars, evars, fvars, xmode, ctor, xinst, xgeom, cwd>>

\* output_dir = os.path.abspath(...); rmtree if it exists; mkdir. The
\* file system may refuse (a path that cannot be removed).
Mkdir(t) ==
    /\ pc[t] = "mkdir"
    /\ LET d == abspath(cwd[ProcOf(xmode, t)], xinst[t].output_dir)
       IN  \/ /\ fs' = mkdir(rmtree(fs, d), d)
              /\ frame' = [frame EXCEPT ![t].output_dir = d,
                                         ![t].prev = NoPrev]
              /\ pc' = [pc EXCEPT ![t] = "getcwd"]
           \/ /\ frame' = [frame EXCEPT ![t].output_dir = d,
                                         ![t].exc = "OSError",
                                         ![t].prev = NoPrev]
              /\ pc' = [pc EXCEPT ![t] = "raised"]
              /\ UNCHANGED fs
    /\ UNCHANGED <<cvars, evars, fvars, xmode, ctor, xinst, xgeom, cwd>>

\* init_dir = os.getcwd()
Getcwd(t) ==
    /\ pc[t] = "getcwd"
    /\ frame' = [frame EXCEPT ![t].init_dir = cwd[ProcOf(xmode, t)]]
    /\ pc' = [pc EXCEPT ![t] = "chdir"]
    /\ UNCHANGED <<cvars, evars, fvars, xmode, ctor, xinst, xgeom, cwd, fs>>

\* os.chdir(output_dir)
Chdir(t) ==
    /\ pc[t] = "chdir"
    /\ cwd' = chdir(cwd, ProcOf(xmode, t), frame[t].output_dir)
    /\ pc' = [pc EXCEPT ![t] = "write"]
    /\ UNCHANGED <<cvars, evars, fvars, xmode, ctor, xinst, xgeom, fs, frame>>

Write_one_more(t) ==
    /\ pc[t] = "write"
    /\ IF frame[t].run < xinst[t].max_runs + 1
       THEN LET k == frame[t].run + 1
            IN  /\ fs' = WriteFile(fs, cwd[ProcOf(xmode, t)], XYZ(k),
                                   Content(t, k, FALSE))
                /\ frame' = [frame EXCEPT
                                ![t].run = k,
                                ![t].wrote = Append(@, xgeom[frame[t].mol])]
                /\ pc' = [pc EXCEPT ![t] = "run"]
       ELSE /\ frame' = [frame EXCEPT ![t].exc =
                            IF frame[t].complete = "unbound"
                            THEN "UnboundLocalError" ELSE @]
            /\ pc' = [pc EXCEPT ![t] = "finally"]
            /\ UNCHANGED fs
    /\ UNCHANGED <<cvars, evars, fvars, xmode, ctor, xinst, xgeom, cwd>>

\* The head of "for run in range(self._max_runs)" and mol.write(xyz); when
\* the runs are used up, "return opt_complete".
Write(t) ==
    /\ pc[t] = "write"
    /\ IF frame[t].run < xinst[t].max_runs
       THEN LET k == frame[t].run + 1
            IN  /\ fs' = WriteFile(fs, cwd[ProcOf(xmode, t)], XYZ(k),
                                   Content(t, k, FALSE))
                /\ frame' = [frame EXCEPT
                                ![t].run = k,
                                ![t].wrote = Append(@, xgeom[frame[t].mol])]
                /\ pc' = [pc EXCEPT ![t] = "run"]
       ELSE /\ frame' = [frame EXCEPT ![t].exc =
                            IF frame[t].complete = "unbound"
                            THEN "UnboundLocalError" ELSE @]
            /\ pc' = [pc EXCEPT ![t] = "finally"]
            /\ UNCHANGED fs
    /\ UNCHANGED <<cvars, evars, fvars, xmode, ctor, xinst, xgeom, cwd>>

\* self._run_xtb(xyz, out_file): the output file is opened and the
\* executable runs, both in the working directory of that moment.
RunXtb(t) ==
    /\ pc[t] = "run"
    /\ \E ch \in ExeChoices(xinst[t], xmode) :
        LET d == cwd[ProcOf(xmode, t)]
        IN  fs' = [fs EXCEPT ![d] =
                        AfterExe(@, t, frame[t].run, ch)]
    /\ frame' = [frame EXCEPT ![t].invoked = @ + 1]
    /\ pc' = [pc EXCEPT ![t] = "check"]
    /\ UNCHANGED <<cvars, evars, fvars, xmode, ctor, xinst, xgeom, cwd>>

\* What the loop body does after the executable returned, reading
\* directory dir: the exception raised (or "none"), opt_complete, the file
\* the molecule is updated from (or "none"), whether the molecule is added
\* to self.incomplete here, and where the loop goes.
Outcome(e, complete, file, mark, next) ==
    [exc |-> e, complete |-> complete, file |-> file, mark |-> mark,
     next |-> next]

Attempt_exhausts(inst, dir, k) ==
    LET c == _is_complete(inst, dir, k)
    IN  IF c.exc # "none"
        THEN Outcome(c.exc, "unset", NoFile, FALSE, "finally")
        ELSE IF ~c.value
        THEN Outcome("none", "false",
                     IF dir[COORD] # Absent THEN COORD ELSE NoFile,
                     FALSE, "write")
        ELSE IF dir[OUTPUT_XYZ] = Absent
             THEN Outcome("FileNotFoundError", "true", NoFile, FALSE, "finally")
             ELSE Outcome("none", "true", OUTPUT_XYZ, FALSE, "finally")

Attempt_no_break(inst, dir, k) ==
    LET c == _is_complete(inst, dir, k)
    IN  IF c.exc # "none"
        THEN Outcome(c.exc, "unset", NoFile, FALSE, "finally")
        ELSE IF ~c.value
        THEN IF dir[COORD] # Absent
             THEN Outcome("none", "false", COORD, FALSE, "write")
             ELSE IF dir[OUTPUT_XYZ] = Absent
                  THEN Outcome("FileNotFoundError", "false", NoFile, FALSE, "finally")
                  ELSE Outcome("none", "false", OUTPUT_XYZ, TRUE, "finally")
        ELSE IF dir[OUTPUT_XYZ] = Absent
             THEN Outcome("FileNotFoundError", "true", NoFile, FALSE, "finally")
             ELSE Outcome("none", "true", OUTPUT_XYZ, FALSE, "write")

Attempt_marks_on_restart(inst, dir, k) ==
    LET c == _is_complete(inst, dir, k)
    IN  IF c.exc # "none"
        THEN Outcome(c.exc, "unset", NoFile, FALSE, "finally")
        ELSE IF ~c.value
        THEN IF dir[COORD] # Absent
             THEN Outcome("none", "false", COORD, TRUE, "write")
             ELSE IF dir[OUTPUT_XYZ] = Absent
                  THEN Outcome("FileNotFoundError", "false", NoFile, FALSE, "finally")
                  ELSE Outcome("none", "false", OUTPUT_XYZ, TRUE, "finally")
        ELSE IF dir[OUTPUT_XYZ] = Absent
             THEN Outcome("FileNotFoundError", "true", NoFile, FALSE, "finally")
             ELSE Outcome("none", "true", OUTPUT_XYZ, FALSE, "finally")

Attempt(inst, dir, k) ==
    LET coord_exists == dir[COORD] # Absent
        c == _is_complete(inst, dir, k)
    IN  IF c.exc # "none"
        THEN Outcome(c.exc, "unset", NoFile, FALSE, "finally")
        ELSE IF ~c.value
        THEN IF coord_exists
             THEN Outcome("none", "false", COORD, FALSE, "write")
             ELSE IF dir[OUTPUT_XYZ] = Absent
                  THEN Outcome("FileNotFoundError", "false", NoFile, FALSE, "finally")
                  ELSE Outcome("none", "false", OUTPUT_XYZ, TRUE, "finally")
        ELSE IF dir[OUTPUT_XYZ] = Absent
             THEN Outcome("FileNotFoundError", "true", NoFile, FALSE, "finally")
             ELSE Outcome("none", "true", OUTPUT_XYZ, FALSE, "finally")

\* The rest of the loop body: coord_exists, self._is_complete(out_file) and
\* the update of the molecule, all read in the working directory.
Check(t) ==
    /\ pc[t] = "check"
    /\ LET dir == fs[cwd[ProcOf(xmode, t)]]
           m == frame[t].mol
           o == Attempt(xinst[t], dir, frame[t].run)
       IN  /\ frame' = [frame EXCEPT
                            ![t].seen = Append(@, Seen(dir, frame[t].run)),
                            ![t].exc = o.exc,
                            ![t].complete =
                                IF o.complete = "unset" THEN @ ELSE o.complete]
           /\ xgeom' = IF o.file = NoFile THEN xgeom
                       ELSE [xgeom EXCEPT ![m] = FromFile(dir, o.file)]
           /\ xinst' = IF o.mark
                       THEN [xinst EXCEPT ![t].incomplete = @ \cup {m}]
                       ELSE xinst
           /\ pc' = [pc EXCEPT ![t] = o.next]
    /\ UNCHANGED <<cvars, evars, fvars, xmode, ctor, cwd, fs>>

\* "finally: os.chdir(init_dir)"
Restore_unless_raised(w, p, fr) ==
    IF fr.exc # "none" THEN w ELSE chdir(w, p, fr.init_dir)

Restore(w, p, fr) == chdir(w, p, fr.init_dir)

\* "if not complete: self.incomplete.add(mol)", then what _cache_result
\* does with a call that returned.
Finish_never_marks(inst, fr) ==
    [inst EXCEPT !.cache = IF inst.use_cache THEN @ \cup {fr.mol} ELSE @]

Finish_caches_when_complete(inst, fr) ==
    [inst EXCEPT
        !.incomplete = IF fr.complete # "true" THEN @ \cup {fr.mol} ELSE @,
        !.cache = IF inst.use_cache /\ fr.complete = "true"
                  THEN @ \cup {fr.mol} ELSE @]

Finish(inst, fr) ==
    [inst EXCEPT
        !.incomplete = IF fr.complete # "true" THEN @ \cup {fr.mol} ELSE @,
        !.cache = IF inst.use_cache THEN @ \cup {fr.mol} ELSE @]

\* The end of the try statement and of the call.
Finally(t) ==
    /\ pc[t] = "finally"
    /\ cwd' = Restore(cwd, ProcOf(xmode, t), frame[t])
    /\ IF frame[t].exc # "none"
       THEN /\ pc' = [pc EXCEPT ![t] = "raised"]
            /\ UNCHANGED xinst
       ELSE /\ pc' = [pc EXCEPT ![t] = "done"]
            /\ xinst' = [xinst EXCEPT ![t] = Finish(@, frame[t])]
    /\ UNCHANGED <<cvars, evars, fvars, xmode, ctor, xgeom, fs, frame>>

\* The caller goes on after the call returned or raised.
Return(t) ==
    /\ pc[t] \in {"done", "raised"}
    /\ pc' = [pc EXCEPT ![t] = "idle"]
    /\ frame' = [frame EXCEPT ![t] =
                    [Frame(0, frame[t].n, Home) EXCEPT !.prev =
                        IF frame[t].skipped THEN frame[t].prev
                        ELSE EndedAs(frame[t], pc[t])]]
    /\ UNCHANGED <<cvars, evars, fvars, xmode, ctor, xinst, xgeom, cwd, fs>>

XtbNext ==
    \/ \E t \in Callers : Construct(t)
    \/ \E t \in Callers : \E m \in MolsOf(xmode, t) : XtbOptimize(t, m)
    \/ \E t \in Callers : Mkdir(t)
    \/ \E t \in Callers : Getcwd(t)
    \/ \E t \in Callers : Chdir(t)
    \/ \E t \in Callers : Write(t)
    \/ \E t \in Callers : RunXtb(t)
    \/ \E t \in Callers : Check(t)
    \/ \E t \in Callers : Finally(t)
    \/ \E t \in Callers : Return(t)

XtbSpec == XtbInit /\ [][XtbNext]_vars

\* The same, with every caller going on as long as it has a step to take:
\* the statements of a call follow one another, and the executable returns.
XtbLive == XtbSpec /\ WF_vars(XtbNext)

(* --------------------------- reading an XTB call ----------------------- *)

\* The calls are made one after the other in one process.
Serialized == xmode \in {"serial", "config", "molecules"}

\* Caller t's call has returned ("done") or raised.
Ended(t) == pc[t] \in {"done", "raised"}

\* Caller t's call has ended and was not answered from the cache.
Ran(t) == Ended(t) /\ ~frame[t].skipped

\* An attempt whose checks found the converged marker and, when the
\* hessian is calculated, no negative frequency past the first six.
Converged(inst, a) ==
    a.ok /\ (inst.calculate_hessian => a.out # Absent /\ ~a.out.neg)

\* The attempts of caller t's call that converged.
ConvergedAttempts(t) ==
    {k \in 1..Len(frame[t].seen) : Converged(xinst[t], frame[t].seen[k])}

\* The last attempt of caller t's call, as its checks found it.
LastSeen(t) == frame[t].seen[Len(frame[t].seen)]

\* The numbered files in caller t's output directory.
Numbered(t) ==
    {n \in {XYZ(k) : k \in 1..MaxRuns} \cup {OUT(k) : k \in 1..MaxRuns} :
        fs[frame[t].output_dir][n] # Absent}

(* ------------------------------ claims: XTB ---------------------------- *)

\* C11: when XTB.optimize calls are made one after the other in one
\* process, every call that has ended, by returning (converged or
\* incomplete) or by raising (XTBConvergenceError, XTBOptimizerError or any
\* other exception), leaves the process in the working directory the call
\* was made in; and so the process is there whenever no call is under way.
C11_CwdRestored ==
    Serialized =>
        \A t \in Active(xmode) :
            /\ Ended(t) => cwd[1] = frame[t].entry_dir
            /\ pc[t] \in {"idle", "done", "raised"} => cwd[1] = Home

\* C11's case: a call that changed directory, ran two attempts and raised
\* XTBConvergenceError in the second has ended.
C11_Witness ==
    /\ Serialized
    /\ pc[1] = "raised"
    /\ frame[1].exc = "XTBConvergenceError"
    /\ frame[1].run = 2
    /\ frame[1].output_dir # frame[1].entry_dir
    /\ cwd[1] = frame[1].entry_dir

\* C11, further exits: an exception that is neither of the XTB errors
\* (a file the update needs is missing) once the directory was changed.
C11_WitnessOther ==
    /\ Serialized
    /\ pc[1] = "raised"
    /\ frame[1].exc = "FileNotFoundError"
    /\ frame[1].invoked = 1
    /\ cwd[1] = frame[1].entry_dir

\* The attempts of caller t's call all found the converged marker and the
\* file the update reads, so that no check and no update failed.
NothingFailed(t) ==
    /\ frame[t].exc # "OSError"
    /\ \A k \in 1..Len(frame[t].seen) :
        LET a == frame[t].seen[k]
        IN  /\ a.ok
            /\ xinst[t].calculate_hessian => a.out # Absent
            /\ IF Converged(xinst[t], a) THEN a.xyz # Absent
               ELSE a.coord # Absent \/ a.xyz # Absent

\* C12, as claimed: after an optimize(m) call that ran and returned, m is
\* in incomplete exactly when no attempt of the call converged, and a call
\* in which nothing failed returns: not converging does not make it raise.
C12_AsClaimed ==
    Serialized =>
        \A t \in Active(xmode) :
            /\ pc[t] = "done" /\ ~frame[t].skipped =>
                (frame[t].mol \in xinst[t].incomplete
                    <=> ConvergedAttempts(t) = {})
            /\ Ran(t) /\ NothingFailed(t) => pc[t] = "done"

\* C12 for an instance that makes at least one attempt: the same, and the
\* mark an earlier call left is gone once the call has started.
C12_WithAnAttempt ==
    Serialized =>
        \A t \in Active(xmode) :
            /\ pc[t] = "done" /\ ~frame[t].skipped =>
                (frame[t].mol \in xinst[t].incomplete
                    <=> ConvergedAttempts(t) = {})
            /\ Ran(t) /\ NothingFailed(t) /\ xinst[t].max_runs >= 1 =>
                pc[t] = "done"
            /\ pc[t] \in {"mkdir", "getcwd", "chdir"} =>
                frame[t].mol \notin xinst[t].incomplete

\* C12's case: a second call on a molecule the first call left incomplete
\* has converged and returned.
C12_Witness ==
    /\ xmode = "serial"
    /\ pc[1] = "done"
    /\ ~frame[1].skipped
    /\ frame[1].marked
    /\ ConvergedAttempts(1) # {}
    /\ frame[1].mol \notin xinst[1].incomplete

\* The failing input of C12: max_runs = 0, so that the loop makes no
\* attempt and "return opt_complete" reads a name never assigned.
C12_NoAttemptRaises ==
    /\ xmode = "serial"
    /\ xinst[1] # NoXtb
    /\ xinst[1].max_runs = 0
    /\ pc[1] = "raised"
    /\ frame[1].exc = "UnboundLocalError"
    /\ frame[1].seen = <<>>

\* The output directory of caller t's call holds exactly the files n.
OnlyNumbered(t, n) == Numbered(t) = n

\* C13: with max_runs = 2, a call whose first attempt converged (converged
\* marker there, no negative frequency past the first six, xtbopt.xyz
\* there) returns having written input_structure_1.xyz and
\* optimization_1.output and no other numbered file, having started the
\* executable once, with the molecule out of incomplete and its geometry
\* read from the xtbopt.xyz of that attempt.
C13_ConvergesAtOnce ==
    Serialized =>
        \A t \in Active(xmode) :
            (/\ Ran(t)
             /\ xinst[t].max_runs = 2
             /\ frame[t].seen # <<>>
             /\ Converged(xinst[t], frame[t].seen[1])
             /\ frame[t].seen[1].xyz # Absent)
            => /\ pc[t] = "done"
               /\ Len(frame[t].seen) = 1
               /\ frame[t].invoked = 1
               /\ OnlyNumbered(t, {XYZ(1), OUT(1)})
               /\ frame[t].mol \notin xinst[t].incomplete
               /\ xgeom[frame[t].mol] =
                    [file |-> "xtbopt.xyz", content |-> Content(t, 1, FALSE)]
               /\ fs[frame[t].output_dir][OUTPUT_XYZ] = Content(t, 1, FALSE)

\* C13's case: such a call has returned, on a molecule that an earlier
\* call had left incomplete.
C13_Witness ==
    /\ xmode = "serial"
    /\ pc[1] = "done"
    /\ ~frame[1].skipped
    /\ frame[1].marked
    /\ xinst[1].max_runs = 2
    /\ Len(frame[1].seen) = 1
    /\ Converged(xinst[1], frame[1].seen[1])

\* Attempt k of caller t's call did not converge without failing: the
\* converged marker was there and so was a negative frequency.
NotConverged(t, k) ==
    /\ k <= Len(frame[t].seen)
    /\ frame[t].seen[k].ok
    /\ ~Converged(xinst[t], frame[t].seen[k])

\* C14, as claimed: with max_runs = 2, when neither attempt converged and
\* attempt 2 wrote xtbopt.xyz and no restart file, the call made two
\* attempts and no third, returned, left the molecule in incomplete, and
\* the molecule's geometry is that of the xtbopt.xyz of attempt 2.
C14_AsClaimed ==
    Serialized =>
        \A t \in Active(xmode) :
            (/\ Ran(t)
             /\ xinst[t].max_runs = 2
             /\ NotConverged(t, 1) /\ NotConverged(t, 2)
             /\ frame[t].seen[2].coord.run # 2
             /\ frame[t].seen[2].xyz = Content(t, 2, FALSE))
            => /\ pc[t] = "done"
               /\ frame[t].invoked = 2
               /\ frame[t].mol \in xinst[t].incomplete
               /\ xgeom[frame[t].mol] =
                    [file |-> "xtbopt.xyz", content |-> Content(t, 2, FALSE)]

\* C14 when no restart file is in the directory after attempt 2 (the
\* executable removed the one attempt 1 left): then it is as claimed.
C14_NoRestartFileLeft ==
    Serialized =>
        \A t \in Active(xmode) :
            (/\ Ran(t)
             /\ xinst[t].max_runs = 2
             /\ NotConverged(t, 1) /\ NotConverged(t, 2)
             /\ frame[t].seen[2].coord = Absent
             /\ frame[t].seen[2].xyz = Content(t, 2, FALSE))
            => /\ pc[t] = "done"
               /\ frame[t].invoked = 2
               /\ frame[t].mol \in xinst[t].incomplete
               /\ xgeom[frame[t].mol] =
                    [file |-> "xtbopt.xyz", content |-> Content(t, 2, FALSE)]

\* C14's failing case: attempt 2 wrote no restart file, the one attempt 1
\* wrote is still there, and the molecule has the geometry of that file.
C14_StaleRestartFile ==
    /\ Serialized
    /\ pc[1] = "done"
    /\ xinst[1].max_runs = 2
    /\ NotConverged(1, 1) /\ NotConverged(1, 2)
    /\ frame[1].seen[2].coord = Content(1, 1, FALSE)
    /\ frame[1].seen[2].xyz = Content(1, 2, FALSE)
    /\ xgeom[1] = [file |-> "xtbhess.coord", content |-> Content(1, 1, FALSE)]
    /\ frame[1].mol \in xinst[1].incomplete

\* The errors XTB._is_complete raises.
MarkerErrors == {"XTBConvergenceError", "XTBOptimizerError"}

\* The directory caller t's checks read.
DirOf(t) == fs[cwd[ProcOf(xmode, t)]]

\* C15: in every attempt of every call, when the checks find no converged
\* marker the call raises there and then: XTBConvergenceError if
\* NOT_CONVERGED is there, XTBOptimizerError if it is not; that step
\* leaves the molecule's geometry and the incomplete set as they were, and
\* from then on the call writes no file, starts no executable and makes no
\* further attempt: it leaves through the finally clause with that error.
C15_NoMarkerRaises ==
    [][\A t \in Callers :
        /\ (pc[t] = "check" /\ pc'[t] # "check" /\ DirOf(t)[XTBOPTOK] = Absent)
            => /\ frame'[t].exc = IF DirOf(t)[NOT_CONVERGED] # Absent
                                  THEN "XTBConvergenceError"
                                  ELSE "XTBOptimizerError"
               /\ pc'[t] = "finally"
               /\ xgeom' = xgeom
               /\ xinst' = xinst
               /\ frame'[t].run = frame[t].run
        /\ (frame[t].exc \in MarkerErrors /\ pc'[t] # pc[t])
            => /\ pc[t] \in {"finally", "raised"}
               /\ pc'[t] = IF pc[t] = "finally" THEN "raised" ELSE "idle"
               /\ fs' = fs
               /\ xgeom' = xgeom
               /\ xinst' = xinst
               /\ pc[t] = "finally" => frame'[t] = frame[t]
    ]_vars

\* C15's case: the second attempt found NOT_CONVERGED and no converged
\* marker; the call raised XTBConvergenceError after two attempts with
\* the geometry the first attempt's restart file gave.
C15_Witness ==
    /\ Serialized
    /\ pc[1] = "raised"
    /\ frame[1].exc = "XTBConvergenceError"
    /\ Len(frame[1].seen) = 2
    /\ ~frame[1].seen[2].ok /\ frame[1].seen[2].nc
    /\ frame[1].invoked = 2
    /\ Numbered(1) = {XYZ(1), OUT(1), XYZ(2), OUT(2)}
    /\ xgeom[1] = [file |-> "xtbhess.coord", content |-> Content(1, 1, FALSE)]

\* C15, the other error: neither marker was there.
C15_WitnessNeither ==
    /\ pc[1] = "raised"
    /\ frame[1].exc = "XTBOptimizerError"
    /\ ~LastSeen(1).ok /\ ~LastSeen(1).nc
    /\ xgeom[1] = InitialGeom

\* The version and solvent pairs the whitelist admits, as stored.
ValidPairs == {<<"1", "h2o">>, <<"2", "h2o">>, <<"2", "dmf">>}

\* C16: XTB(...) with a solvent raises XTBInvalidSolventError exactly when
\* the version is 0 or the solvent (lower-cased) is not valid for the
\* version, and then no instance exists and no call is ever made; with
\* solvent None it never raises; so every instance, and every call under
\* way, has solvent None or a valid pair.
C16_InvalidSolventRefused ==
    \A t \in Callers :
        /\ ctor[t].made =>
            /\ ctor[t].exc \in {"none", "XTBInvalidSolventError"}
            /\ ctor[t].exc = "XTBInvalidSolventError" <=>
                /\ ctor[t].args.solvent # "None"
                /\ \/ ctor[t].args.gfn_version = 0
                   \/ <<ToString(ctor[t].args.gfn_version),
                        Lower(ctor[t].args.solvent)>> \notin ValidPairs
            /\ ctor[t].exc # "none" =>
                xinst[t] = NoXtb /\ pc[t] = "idle" /\ frame[t] = NoFrame
        /\ xinst[t] # NoXtb =>
            \/ xinst[t].solvent = "None"
            \/ <<xinst[t].gfn_version, xinst[t].solvent>> \in ValidPairs
        /\ pc[t] # "idle" => xinst[t] # NoXtb

\* C16's case: a construction with a solvent the version does not admit
\* was refused.
C16_Witness ==
    /\ ctor[1].made
    /\ ctor[1].args.gfn_version = 1
    /\ ctor[1].args.solvent = "DMF"
    /\ ctor[1].exc = "XTBInvalidSolventError"
    /\ xinst[1] = NoXtb

\* C16, the other cases: version 0 with a solvent is refused; a valid pair
\* given in upper case is accepted and a call runs with it.
C16_WitnessVersion0 ==
    /\ ctor[1].made
    /\ ctor[1].args.gfn_version = 0
    /\ ctor[1].args.solvent = "h2o"
    /\ ctor[1].exc = "XTBInvalidSolventError"

C16_WitnessAccepted ==
    /\ ctor[1].made
    /\ ctor[1].args.solvent = "H2O"
    /\ xinst[1] # NoXtb
    /\ xinst[1].solvent = "h2o"
    /\ pc[1] = "done"

\* C17: XTB(..., calculate_hessian=False) is constructed whatever max_runs
\* was asked for, with max_runs 1 and a warning when another number was
\* asked for, and no optimize call on it starts the executable twice.
C17_NoHessianOneRun ==
    \A t \in Callers :
        (ctor[t].made /\ ~ctor[t].args.calculate_hessian /\
         ctor[t].args.solvent = "None")
        => /\ ctor[t].exc = "none"
           /\ xinst[t] # NoXtb
           /\ xinst[t].max_runs = 1
           /\ ~xinst[t].calculate_hessian
           /\ ctor[t].warned <=> ctor[t].args.max_runs # 1
           /\ frame[t].invoked <= 1
           /\ frame[t].run <= 1

\* C17's case: max_runs = 2 was asked for without the hessian, and a call
\* has returned after one run of the executable.
C17_Witness ==
    /\ ctor[1].made
    /\ ~ctor[1].args.calculate_hessian
    /\ ctor[1].args.max_runs = 2
    /\ ctor[1].warned
    /\ pc[1] = "done"
    /\ frame[1].invoked = 1

\* The output directory of caller t's instance, seen from the directory
\* the program was started in (that directory, while t has no instance).
OwnDir(t) ==
    IF xinst[t] = NoXtb THEN Home ELSE abspath(Home, xinst[t].output_dir)

\* The directories that hold a file of caller t's call.
DirsWithFilesOf(t) ==
    {d \in DOMAIN fs : \E n \in FileNames : fs[d][n].by = t}

\* C18, two processes: each call's files are all in its own output
\* directory, each process is in that directory from its chdir to its
\* finally clause and in the starting directory otherwise: no call reads
\* or writes in the other's directory, and the working directory after
\* the calls is the one before them. (Two threads: C18_Witness.)
C18_ProcessesIsolated ==
    xmode = "processes" =>
        \A t \in Callers :
            /\ DirsWithFilesOf(t) \subseteq {OwnDir(t)}
            /\ pc[t] \in {"write", "run", "check", "finally"} =>
                /\ cwd[t] = OwnDir(t)
                /\ frame[t].output_dir = OwnDir(t)
            /\ pc[t] \in {"idle", "mkdir", "getcwd", "chdir", "done", "raised"}
                => cwd[t] = Home
            /\ DOMAIN fs \subseteq {Home} \cup {OwnDir(u) : u \in Callers}

\* C18, two threads of one process: both calls have ended, the first
\* call's files are in the second call's output directory, and the
\* process is not in the directory it was in before the calls.
C18_Witness ==
    /\ xmode = "threads"
    /\ \A t \in Callers : Ended(t)
    /\ frame[1].output_dir # frame[2].output_dir
    /\ frame[2].output_dir \in DirsWithFilesOf(1)
    /\ cwd[1] # Home

\* C18, two processes: both calls have ended after running the executable.
C18_WitnessProcesses ==
    /\ xmode = "processes"
    /\ \A t \in Callers : Ended(t) /\ frame[t].invoked = 1
    /\ \A t \in Callers : cwd[t] = Home

(* ======================================================================= *)
(* The EA loop: EvolutionaryAlgorithm.run_ea (ea_class.py:305-480).        *)
(* The population, the selectors, the crosser, the mutator, the terminator *)
(* and the helpers of stk.utilities are collaborators whose code is not    *)
(* part of the source tree: what they return is the environment's choice,  *)
(* within what the specification says of them.                             *)
(* ======================================================================= *)

\* The attribute of a member that the stage at position p works on.
StageField(p) == IF p = "optimizing" THEN "opt" ELSE "fit"

\* Population.optimize / set_fitness_values_from_calculators hand one task
\* per member to the pool: the members as the call finds them.
Dispatched(p, f) == [i \in DOMAIN p |-> [p[i] EXCEPT ![f] = "pending"]]

Running(p, f) == {i \in DOMAIN p : p[i][f] = "running"}

Pending(p, f) == {i \in DOMAIN p : p[i][f] = "pending"}

Raised(p, f) == {i \in DOMAIN p : p[i][f] = "raised"}

\* The call over the population returns when every member's task is done.
MapDone(p, f) == \A i \in DOMAIN p : p[i][f] = "done"

\* The call raises what a calculator raised, once no task is under way.
MapRaises(p, f) == Raised(p, f) # {} /\ Running(p, f) = {}

NumGenerations_terminate_on_exactly_n(n, prog) == Len(prog) = n

\* NumGenerations(n).terminate(progress).
NumGenerations_terminate(n, prog) == Len(prog) >= n

\* stk.archive_output(): whether it moves ./output away is its own affair.
archive_output(d) ==
    IF d.cwd = "launch" /\ d.output = "present"
    THEN {d, [d EXCEPT !.output = "archived"]}
    ELSE {d}

\* Lines 471-479: what they leave on disk, and what they raise.
Finalization(d) ==
    IF d.output # "present"
    THEN {[disk |-> d, exc |-> "FileNotFoundError"]}
    ELSE IF "scratch" \notin d.errors_log
    THEN {[disk |-> [d EXCEPT !.cwd = "root"], exc |-> "FileNotFoundError"]}
    ELSE {[disk |-> a, exc |-> "none"] :
            a \in archive_output([d EXCEPT !.cwd = "launch",
                                           !.errors_log = {"root"}])}

StepAfter_select_before_fitness(p, g) ==
    CASE p = "optimizing" -> IF g = 0 THEN "fitness" ELSE "select"
      [] p = "evaluating" -> "log"
      [] p = "log"        -> "record"
      [] p = "select"     -> "fitness"
      [] p = "record"     -> IF g = 0 THEN "terminate" ELSE "finalize"
      [] p = "finalize"   -> "terminate"
      [] p = "cross"      -> "mutate"
      [] p = "mutate"     -> "merge"
      [] p = "merge"      -> "optimize"

StepAfter_record_before_select(p, g) ==
    CASE p = "optimizing" -> "fitness"
      [] p = "evaluating" -> "log"
      [] p = "log"        -> "record"
      [] p = "select"     -> "finalize"
      [] p = "record"     -> IF g = 0 THEN "terminate" ELSE "select"
      [] p = "finalize"   -> "terminate"
      [] p = "cross"      -> "mutate"
      [] p = "mutate"     -> "merge"
      [] p = "merge"      -> "optimize"

\* The statement run_ea goes to when the one at p, in generation g (0 for
\* the initial population), has returned.
StepAfter(p, g) ==
    CASE p = "optimizing" -> "fitness"
      [] p = "evaluating" -> "log"
      [] p = "log"        -> IF g = 0 THEN "record" ELSE "select"
      [] p = "select"     -> "record"
      [] p = "record"     -> IF g = 0 THEN "terminate" ELSE "finalize"
      [] p = "finalize"   -> "terminate"
      [] p = "cross"      -> "mutate"
      [] p = "mutate"     -> "merge"
      [] p = "merge"      -> "optimize"

\* The subsequences of a population a selector may yield for the next
\* generation: some of its members, in their order.
RECURSIVE Kept(_, _)
Kept(p, keep) ==
    IF p = <<>> THEN <<>>
    ELSE IF Len(p) \in keep
         THEN Append(Kept(SubSeq(p, 1, Len(p) - 1), keep), p[Len(p)])
         ELSE Kept(SubSeq(p, 1, Len(p) - 1), keep)

Selections(p) ==
    {Kept(p, keep) : keep \in {k \in SUBSET DOMAIN p :
                                 k # {} /\ Cardinality(k) <= MaxMembers}}

\* The state when run_ea has set up its directories and its history
\* (308-338) and has numbered the initial population (342).
EaInit ==
    /\ CoreUnused
    /\ XtbUnused
    /\ ProbeUnused
    /\ ea_pc = "optimize"
    /\ terminator \in 1..MaxGenerations
    /\ num_processes \in 1..MaxProcesses
    /\ pop \in {[i \in 1..n |-> Member(0)] : n \in 1..MaxMembers}
    /\ gen = 0
    /\ made = NoneMade
    /\ progress = <<>>
    /\ trail = <<>>
    /\ tally = NoTally
    /\ disk = FreshDisk
    /\ ea_exc = "none"

\* self.pop.optimize(self.optimizer, num_processes) is called.
EaOptimize ==
    /\ ea_pc = "optimize"
    /\ pop' = Dispatched(pop, "opt")
    /\ ea_pc' = "optimizing"
    /\ trail' = Append(trail, "optimize")
    /\ UNCHANGED <<cvars, xvars, fvars, terminator, num_processes, gen, made,
                   progress, tally, disk, ea_exc>>

\* A worker of the pool takes the next task of the stage under way. Once a
\* calculator has raised, the call is bound to raise: the tasks not yet
\* taken are of no account to run_ea and are left where they are.
PoolStart ==
    /\ ea_pc \in {"optimizing", "evaluating"}
    /\ LET f == StageField(ea_pc)
       IN  /\ Pending(pop, f) # {}
           /\ Cardinality(Running(pop, f)) < num_processes
           /\ Raised(pop, f) = {}
           /\ LET i == CHOOSE j \in Pending(pop, f) :
                           \A k \in Pending(pop, f) : j <= k
              IN  pop' = [pop EXCEPT ![i][f] = "running"]
    /\ UNCHANGED <<cvars, xvars, fvars, ea_pc, terminator, num_processes, gen, made,
                   progress, trail, tally, disk, ea_exc>>

\* A worker finishes its task: the calculator returns, or it raises.
PoolFinish ==
    /\ ea_pc \in {"optimizing", "evaluating"}
    /\ LET f == StageField(ea_pc)
       IN  \E i \in Running(pop, f), r \in {"done", "raised"} :
               pop' = [pop EXCEPT ![i][f] = r]
    /\ UNCHANGED <<cvars, xvars, fvars, ea_pc, terminator, num_processes, gen, made,
                   progress, trail, tally, disk, ea_exc>>

StageOver_catches(p) ==
    /\ ea_pc = p
    /\ \/ MapDone(pop, StageField(p))
       \/ MapRaises(pop, StageField(p))
    /\ ea_pc' = StepAfter(p, gen)
    /\ UNCHANGED <<cvars, xvars, fvars, terminator, num_processes, pop, gen, made,
                   progress, trail, tally, disk, ea_exc>>

\* The call of the stage under way is over: self.pop.optimize(...) or
\* self.pop.set_fitness_values_from_calculators(...) returns or raises.
StageOver(p) ==
    /\ ea_pc = p
    /\ \/ /\ MapDone(pop, StageField(p))
          /\ ea_pc' = StepAfter(p, gen)
          /\ UNCHANGED ea_exc
       \/ /\ MapRaises(pop, StageField(p))
          /\ ea_pc' = "raised"
          /\ ea_exc' = "CalculatorError"
    /\ UNCHANGED <<cvars, xvars, fvars, terminator, num_processes, pop, gen, made,
                   progress, trail, tally, disk>>

EaOptimized == StageOver("optimizing")

\* A calculator at work logs a record of level ERROR for the first time:
\* errorhandler (29-33) opens output/scratch/errors.log, creating it if it
\* is not there. With ./output moved away the handler cannot open its file.
LogError ==
    /\ ea_pc \in {"optimizing", "evaluating"}
    /\ disk.handler = "unopened"
    /\ disk.output = "present"
    /\ disk' = [disk EXCEPT !.handler = "open",
                            !.errors_log = @ \cup {"scratch"}]
    /\ UNCHANGED <<cvars, xvars, fvars, ea_pc, terminator, num_processes, pop, gen,
                   made, progress, trail, tally, ea_exc>>

\* self.pop.set_fitness_values_from_calculators(...) is called.
EaFitness ==
    /\ ea_pc = "fitness"
    /\ pop' = Dispatched(pop, "fit")
    /\ ea_pc' = "evaluating"
    /\ trail' = Append(trail, "fitness")
    /\ UNCHANGED <<cvars, xvars, fvars, terminator, num_processes, gen, made,
                   progress, tally, disk, ea_exc>>

EaEvaluated == StageOver("evaluating")

\* history.log_pop(logger, self.pop); in a generation, history.db(self.pop).
EaLog ==
    /\ ea_pc = "log"
    /\ trail' = IF gen = 0 THEN Append(trail, "log")
                ELSE trail \o <<"log", "db">>
    /\ ea_pc' = StepAfter("log", gen)
    /\ UNCHANGED <<cvars, xvars, fvars, terminator, num_processes, pop, gen, made,
                   progress, tally, disk, ea_exc>>

\* self.pop.direct_members = list(... self.generation_selector.select(...)).
EaSelect ==
    /\ ea_pc = "select"
    /\ pop' \in Selections(pop)
    /\ tally' = [tally EXCEPT !.select = @ + 1]
    /\ trail' = Append(trail, "select")
    /\ ea_pc' = StepAfter("select", gen)
    /\ UNCHANGED <<cvars, xvars, fvars, terminator, num_processes, gen, made,
                   progress, disk, ea_exc>>

\* progress.add_subpopulation(self.pop): for the initial population followed
\* by history.db, in a generation preceded by history.log_pop.
EaRecord ==
    /\ ea_pc = "record"
    /\ progress' = Append(progress, [gen |-> gen, size |-> Len(pop)])
    /\ trail' = IF gen = 0 THEN trail \o <<"record", "db">>
                ELSE trail \o <<"log", "record">>
    /\ ea_pc' = StepAfter("record", gen)
    /\ UNCHANGED <<cvars, xvars, fvars, terminator, num_processes, pop, gen, made,
                   tally, disk, ea_exc>>

\* Lines 464-480, the last statements of the body of the while loop.
EaFinalize ==
    /\ ea_pc = "finalize"
    /\ tally' = [tally EXCEPT !.finalize = @ + 1]
    /\ trail' = Append(trail, "finalize")
    /\ \E f \in Finalization(disk) :
           /\ disk' = f.disk
           /\ ea_exc' = f.exc
           /\ ea_pc' = IF f.exc = "none" THEN StepAfter("finalize", gen)
                       ELSE "raised"
    /\ UNCHANGED <<cvars, xvars, fvars, terminator, num_processes, pop, gen, made,
                   progress>>

\* while not self.terminator.terminate(progress): gen += 1
EaTerminate ==
    /\ ea_pc = "terminate"
    /\ IF NumGenerations_terminate(terminator, progress)
       THEN /\ ea_pc' = "returned"
            /\ UNCHANGED <<gen, trail>>
       ELSE /\ ea_pc' = "cross"
            /\ gen' = gen + 1
            /\ trail' = <<>>
    /\ UNCHANGED <<cvars, xvars, fvars, terminator, num_processes, pop, made,
                   progress, tally, disk, ea_exc>>

EaCrossover_extends_at_once ==
    /\ ea_pc = "cross"
    /\ \E n \in 0..MaxNew :
           /\ made' = [made EXCEPT !.offspring = 0, !.cross_pool = pop]
           /\ pop' = pop \o [i \in 1..n |-> Member(gen)]
    /\ tally' = [tally EXCEPT !.cross = @ + 1]
    /\ trail' = Append(trail, "cross")
    /\ ea_pc' = StepAfter("cross", gen)
    /\ UNCHANGED <<cvars, xvars, fvars, terminator, num_processes, gen,
                   progress, disk, ea_exc>>

\* offspring = list(... self.crosser.cross over the selected parents ...):
\* the crossover selector selects from self.pop, the crosser makes the
\* offspring, and the list holds them.
EaCrossover ==
    /\ ea_pc = "cross"
    /\ \E n \in 0..MaxNew :
           made' = [made EXCEPT !.offspring = n, !.cross_pool = pop]
    /\ tally' = [tally EXCEPT !.cross = @ + 1]
    /\ trail' = Append(trail, "cross")
    /\ ea_pc' = StepAfter("cross", gen)
    /\ UNCHANGED <<cvars, xvars, fvars, terminator, num_processes, pop, gen,
                   progress, disk, ea_exc>>

\* mutants = list(it.starmap(self.mutator.mutate, mutant_parents))
EaMutate ==
    /\ ea_pc = "mutate"
    /\ \E n \in 0..MaxNew :
           made' = [made EXCEPT !.mutants = n, !.mutate_pool = pop]
    /\ tally' = [tally EXCEPT !.mutate = @ + 1]
    /\ trail' = Append(trail, "mutate")
    /\ ea_pc' = StepAfter("mutate", gen)
    /\ UNCHANGED <<cvars, xvars, fvars, terminator, num_processes, pop, gen,
                   progress, disk, ea_exc>>

\* direct_members.extend(offspring, mutants); remove_duplicates();
\* set_mol_ids: the new members that are no duplicates join the population.
EaMerge ==
    /\ ea_pc = "merge"
    /\ \E kept \in 0..(made.offspring + made.mutants) :
           pop' = pop \o [i \in 1..kept |-> Member(gen)]
    /\ trail' = Append(trail, "merge")
    /\ ea_pc' = StepAfter("merge", gen)
    /\ UNCHANGED <<cvars, xvars, fvars, terminator, num_processes, gen, made,
                   progress, tally, disk, ea_exc>>

EaNext ==
    \/ EaOptimize
    \/ PoolStart
    \/ PoolFinish
    \/ EaOptimized
    \/ LogError
    \/ EaFitness
    \/ EaEvaluated
    \/ EaLog
    \/ EaSelect
    \/ EaRecord
    \/ EaFinalize
    \/ EaTerminate
    \/ EaCrossover
    \/ EaMutate
    \/ EaMerge

EaSpec == EaInit /\ [][EaNext]_vars

(* ----------------------------- EA: claims ------------------------------ *)

AllDone(f) == \A i \in DOMAIN pop : pop[i][f] = "done"

\* A task of the fitness stage has been taken up by a worker.
FitnessBegun ==
    /\ ea_pc = "evaluating"
    /\ \E i \in DOMAIN pop : pop[i].fit # "pending"

\* C19: between the stages of the EA there is a full barrier. While the
\* fitness stage of the initial population or of a generation is under way,
\* and in particular once any fitness evaluation has begun, the optimization
\* of every member of the population has completed; and when the generation
\* selector is about to select, and after it has, every member has been
\* optimized and every fitness evaluation has completed.
C19_StageBarrier ==
    /\ ea_pc \in {"fitness", "evaluating"} => AllDone("opt")
    /\ FitnessBegun => AllDone("opt")
    /\ ea_pc = "select" => AllDone("opt") /\ AllDone("fit")
    /\ (ea_pc \in {"record", "finalize"} /\ gen > 0) =>
           AllDone("opt") /\ AllDone("fit")

\* C19 witness: in the second generation, with a pool of two workers and a
\* population that offspring or mutants have joined, both workers are
\* evaluating fitness at once.
C19_Witness ==
    /\ gen = 2
    /\ num_processes = 2
    /\ Len(pop) > MaxMembers
    /\ FitnessBegun
    /\ Cardinality(Running(pop, "fit")) = 2

\* C19 witness: the generation selector has selected from a population that
\* had grown, in the second generation.
C19_WitnessSelected ==
    /\ gen = 2
    /\ ea_pc = "record"
    /\ tally.select = 2
    /\ \E i \in DOMAIN pop : pop[i].born = 2

\* run_ea is over: it has returned, or it has raised.
EaEnded == ea_pc \in {"returned", "raised"}

\* The run of the scenario: NumGenerations(3), an initial population of two
\* molecules, calculators that do not raise.
C20_Scenario ==
    /\ terminator = 3
    /\ Len(progress) >= 1
    /\ progress[1].size = 2
    /\ ea_exc # "CalculatorError"

\* C20: a run on a population of two molecules with the terminator
\* NumGenerations(3) ends with exactly 3 recorded generation snapshots, it
\* terminates normally, and crossover and mutation are never invoked a
\* fourth time.
C20_AsClaimed ==
    /\ tally.cross < 4
    /\ tally.mutate < 4
    /\ (C20_Scenario /\ EaEnded) =>
           /\ ea_pc = "returned"
           /\ Len(progress) = 3

\* What the code does in that run: the initial population is the first of
\* the three snapshots, the body of the loop is entered twice, and so are
\* crossover and mutation; the run returns only if the statements 464-480
\* found output/scratch/errors.log a second time.
C20_SnapshotsAndRounds ==
    /\ tally.cross < 4
    /\ tally.mutate < 4
    /\ (C20_Scenario /\ EaEnded) =>
           /\ Len(progress) = 3
           /\ gen = 2
           /\ tally.cross = 2
           /\ tally.mutate = 2
           /\ tally.finalize = 2
           /\ ea_pc = "returned" => disk.handler = "open"

\* C20 witness: in that run, with no record of level ERROR ever logged, the
\* second pass of the loop body ends in FileNotFoundError.
C20_SecondPassRaises ==
    /\ C20_Scenario
    /\ ea_pc = "raised"
    /\ ea_exc = "FileNotFoundError"
    /\ disk.handler = "unopened"
    /\ gen = 2
    /\ Len(progress) = 3

\* A history of k recorded subpopulations.
History(k) == [i \in 1..k |-> [gen |-> i - 1, size |-> 1]]

\* The positions of run_ea inside the body of the while loop, before the
\* generation is recorded.
BeforeRecord ==
    {"cross", "mutate", "merge", "optimize", "optimizing", "fitness",
     "evaluating", "log", "select"}

\* C21: NumGenerations(n).terminate(progress) is true exactly when progress
\* holds at least n recorded subpopulations, and it is monotone: true of a
\* history, it is true of every longer one. So it is for every n and every
\* history up to the bounds, for the cases of test_num_generations
\* (NumGenerations(10) on 5, 10 and 15 subpopulations), and in the run: the
\* loop is left only with at least n snapshots recorded, and its body is
\* entered only with fewer.
C21_NumGenerations ==
    /\ \A n \in 0..(MaxGenerations + 1), k \in 0..(MaxGenerations + 2) :
           /\ NumGenerations_terminate(n, History(k)) <=> k >= n
           /\ \A k2 \in k..(MaxGenerations + 2) :
                  NumGenerations_terminate(n, History(k)) =>
                      NumGenerations_terminate(n, History(k2))
    /\ ~NumGenerations_terminate(10, History(5))
    /\ NumGenerations_terminate(10, History(10))
    /\ NumGenerations_terminate(10, History(15))
    /\ ea_pc = "returned" => Len(progress) >= terminator
    /\ ea_pc \in BeforeRecord /\ gen > 0 => Len(progress) < terminator

\* C21 witness: with NumGenerations(2) the loop body has run once, the test
\* has found two snapshots, and run_ea has returned.
C21_Witness ==
    /\ terminator = 2
    /\ ea_pc = "returned"
    /\ Len(progress) = 2
    /\ gen = 1

\* The last step run_ea has taken since the last test of the loop.
LastStep == IF trail = <<>> THEN "none" ELSE trail[Len(trail)]

\* C22: run_ea never catches a calculator error. Once the optimizer or the
\* fitness calculator has raised in a stage, run_ea is still inside that
\* stage's call or has raised that error, and the call of that stage is the
\* last step it has taken: no fitness evaluation after a failed optimization,
\* no selection, no snapshot of that generation, no crossover or mutation of
\* a next one.
C22_CalculatorErrorAborts ==
    /\ Raised(pop, "opt") # {} =>
           /\ ea_pc \in {"optimizing", "raised"}
           /\ LastStep = "optimize"
    /\ Raised(pop, "fit") # {} =>
           /\ ea_pc \in {"evaluating", "raised"}
           /\ LastStep = "fitness"
    /\ (Raised(pop, "opt") # {} \/ Raised(pop, "fit") # {}) =>
           /\ ea_pc = "raised" => ea_exc = "CalculatorError"
           /\ Len(progress) = gen
           /\ tally.cross = gen /\ tally.mutate = gen
           /\ tally.select = IF gen = 0 THEN 0 ELSE gen - 1
    /\ ea_exc = "CalculatorError" =>
           /\ ea_pc = "raised"
           /\ Raised(pop, "opt") # {} \/ Raised(pop, "fit") # {}

\* C22 witness: in the first generation the fitness calculator raised on one
\* member while another member's evaluation was done, and run_ea has raised.
C22_Witness ==
    /\ gen = 1
    /\ ea_pc = "raised"
    /\ ea_exc = "CalculatorError"
    /\ Raised(pop, "fit") # {}
    /\ \E i \in DOMAIN pop : pop[i].fit = "done"

\* C22 witness: the optimizer raised on the initial population.
C22_WitnessOptimizer ==
    /\ gen = 0
    /\ ea_pc = "raised"
    /\ ea_exc = "CalculatorError"
    /\ Raised(pop, "opt") # {}

\* The first place of step x in the trail tr, 0 if it is not there.
Place(tr, x) ==
    IF \E i \in DOMAIN tr : tr[i] = x
    THEN CHOOSE i \in DOMAIN tr : tr[i] = x /\ \A j \in 1..(i - 1) : tr[j] # x
    ELSE 0

IsPrefixOf(a, b) == Len(a) <= Len(b) /\ SubSeq(b, 1, Len(a)) = a

\* The steps of the initial population and those of one pass of the loop.
InitialSteps == <<"optimize", "fitness", "log", "record", "db">>

GenerationSteps ==
    <<"cross", "mutate", "merge", "optimize", "fitness", "log", "db",
      "select", "log", "record", "finalize">>

Recorded == Place(trail, "record") > 0

Selected == Place(trail, "select") > 0

\* C23 as stated: in a generation the snapshot is recorded after the ranked
\* table is logged and before the generation selector replaces the
\* population: once selection has been made, the snapshot of that generation
\* is already there.
C23_AsClaimed ==
    (gen > 0 /\ Selected) =>
        /\ Recorded
        /\ Place(trail, "optimize") < Place(trail, "fitness")
        /\ Place(trail, "fitness") < Place(trail, "log")
        /\ Place(trail, "log") < Place(trail, "record")
        /\ Place(trail, "record") < Place(trail, "select")

\* C23, amended: in a generation the steps are, in this order, optimize the
\* merged population, score it, log the ranked table, add the population to
\* the history database, select, log the selected population, record the
\* snapshot. A snapshot is recorded only after the selection of its
\* generation, and it is the population as selected.
C23_RecordedAfterSelection ==
    /\ gen = 0 => IsPrefixOf(trail, InitialSteps)
    /\ gen > 0 => IsPrefixOf(trail, GenerationSteps)
    /\ (gen > 0 /\ Recorded) =>
           /\ Selected
           /\ Place(trail, "optimize") < Place(trail, "fitness")
           /\ Place(trail, "fitness") < Place(trail, "log")
           /\ Place(trail, "log") < Place(trail, "db")
           /\ Place(trail, "db") < Place(trail, "select")
           /\ Place(trail, "select") < Place(trail, "record")
           /\ Len(progress) = gen + 1
           /\ progress[Len(progress)] = [gen |-> gen, size |-> Len(pop)]

\* C23 witness: the snapshot of the first generation holds fewer molecules
\* than that of the initial population, which the generation started from
\* and only added to: it was taken after selection had shrunk the
\* population.
C23_Witness ==
    /\ gen = 1
    /\ LastStep = "record"
    /\ Len(progress) = 2
    /\ progress[2].size < progress[1].size

(* --------------------------- claims: XTB, again ------------------------ *)

\* Caller t is inside XTB._run_optimizations or past it.
InLoop(t) == pc[t] \in {"write", "run", "check", "finally", "done"}

\* The files input_structure_k.xyz of attempts 1..n and optimization_k.output
\* of attempts 1..i.
FilesOfAttempts(n, i) == {XYZ(k) : k \in 1..n} \cup {OUT(k) : k \in 1..i}

\* What holds of the attempts of every call at every moment.
AttemptsBounded ==
    \A t \in Active(xmode) :
        xinst[t] # NoXtb =>
            /\ frame[t].run <= xinst[t].max_runs
            /\ frame[t].invoked <= xinst[t].max_runs
            /\ frame[t].invoked =
                   IF pc[t] = "run" THEN frame[t].run - 1 ELSE frame[t].run
            /\ Len(frame[t].seen) <= frame[t].invoked
            /\ (Serialized /\ InLoop(t) /\ ~frame[t].skipped) =>
                   Numbered(t) = FilesOfAttempts(frame[t].run, frame[t].invoked)

\* C24: every XTB optimize call terminates after at most max_runs external
\* invocations. Attempts are numbered 1, 2, ... in a row, attempt k writes
\* input_structure_k.xyz and optimization_k.output, no attempt numbered
\* above max_runs is started; and, each invocation returning, a call that has
\* started comes to its end.
C24_BoundedAttempts ==
    /\ []AttemptsBounded
    /\ \A t \in Callers : (pc[t] = "mkdir") ~> Ended(t)

\* C24 witness: a call with max_runs = 2 has made both attempts, left both
\* pairs of files, and has ended.
C24_Witness ==
    /\ xmode = "serial"
    /\ xinst[1] # NoXtb
    /\ xinst[1].max_runs = MaxRuns
    /\ Ended(1)
    /\ frame[1].invoked = MaxRuns
    /\ Numbered(1) = FilesOfAttempts(MaxRuns, MaxRuns)

\* The checks of an attempt found it not converged without raising: the
\* converged marker is there and so is a negative frequency past the first
\* six.
CheckFailed(inst, a) ==
    a.ok /\ inst.calculate_hessian /\ a.out # Absent /\ a.out.neg

\* C25: in every attempt whose convergence check fails while no
\* xtbhess.coord exists (xtbopt.xyz being there to read), the molecule is
\* updated from xtbopt.xyz and added to the incomplete set, and the loop
\* stops at once: that attempt is the call's last, also when fewer than
\* max_runs attempts have been made; the call goes to its end without
\* raising.
C25_EarlyStop ==
    \A t \in Active(xmode) :
        \A k \in 1..Len(frame[t].seen) :
            (/\ CheckFailed(xinst[t], frame[t].seen[k])
             /\ frame[t].seen[k].coord = Absent
             /\ frame[t].seen[k].xyz # Absent)
            => /\ k = Len(frame[t].seen)
               /\ frame[t].run = k
               /\ frame[t].invoked = k
               /\ pc[t] \in {"finally", "done"}
               /\ frame[t].exc = "none"
               /\ frame[t].complete = "false"
               /\ frame[t].mol \in xinst[t].incomplete
               /\ xgeom[frame[t].mol] =
                    [file |-> "xtbopt.xyz", content |-> frame[t].seen[k].xyz]

\* C25 witness: with max_runs = 2 the first attempt failed its check with
\* no restart file there, and the call has returned after that one attempt.
C25_Witness ==
    /\ xmode = "serial"
    /\ pc[1] = "done"
    /\ xinst[1].max_runs = 2
    /\ Len(frame[1].seen) = 1
    /\ CheckFailed(xinst[1], frame[1].seen[1])
    /\ frame[1].seen[1].coord = Absent
    /\ frame[1].invoked = 1
    /\ frame[1].mol \in xinst[1].incomplete

\* C26: in every attempt whose convergence check fails while xtbhess.coord
\* exists, the molecule is updated from that file; if attempts remain the
\* next one starts, and writes as its input the geometry so updated. While
\* the loop goes on the molecule is not in the incomplete set; it is put
\* there after the loop, when the last attempt did not converge.
C26_RestartFromCoord ==
    \A t \in Active(xmode) :
        /\ \A k \in 1..Len(frame[t].seen) :
            (/\ CheckFailed(xinst[t], frame[t].seen[k])
             /\ frame[t].seen[k].coord # Absent)
            => LET updated == [file |-> "xtbhess.coord",
                               content |-> frame[t].seen[k].coord]
               IN  /\ frame[t].exc = "none" /\ Len(frame[t].seen) = k
                        => xgeom[frame[t].mol] = updated
                   /\ Len(frame[t].wrote) > k => frame[t].wrote[k + 1] = updated
                   /\ k < xinst[t].max_runs =>
                        \/ frame[t].run > k
                        \/ pc[t] = "write" /\ frame[t].run = k
                   /\ k = Len(frame[t].seen) =>
                        /\ pc[t] \in {"write", "run"} =>
                             frame[t].mol \notin xinst[t].incomplete
                        /\ pc[t] = "finally" =>
                             /\ k = xinst[t].max_runs
                             /\ frame[t].mol \notin xinst[t].incomplete
                        /\ pc[t] = "done" =>
                             /\ k = xinst[t].max_runs
                             /\ frame[t].mol \in xinst[t].incomplete
        /\ pc[t] \in {"write", "run", "check"} =>
               frame[t].mol \notin xinst[t].incomplete

\* C26 witness: the first attempt failed its check with a restart file
\* there, the second attempt started from the geometry of that file and
\* failed in the same way, and the call has returned with the molecule in
\* the incomplete set.
C26_Witness ==
    /\ xmode = "serial"
    /\ pc[1] = "done"
    /\ Len(frame[1].seen) = 2
    /\ CheckFailed(xinst[1], frame[1].seen[1])
    /\ frame[1].seen[1].coord # Absent
    /\ frame[1].wrote[2] =
         [file |-> "xtbhess.coord", content |-> frame[1].seen[1].coord]
    /\ CheckFailed(xinst[1], frame[1].seen[2])
    /\ frame[1].seen[2].coord # Absent
    /\ frame[1].mol \in xinst[1].incomplete

\* The files of a directory.
FilesIn(dir) == {n \in FileNames : dir[n] # Absent}

\* C27: at the start of every XTB optimize call (calls made one after the
\* other) the output directory is made anew and empty, a directory of that
\* name being wiped first. Until the first attempt writes its input the
\* directory holds no file; before the first invocation it holds that input
\* only; and what the checks of attempt k find was left by the attempts 1..k
\* of this call: no file of an earlier call is seen.
C27_FreshOutputDir ==
    Serialized =>
        \A t \in Active(xmode) :
            /\ pc[t] \in {"getcwd", "chdir"} \/ (pc[t] = "write" /\ frame[t].run = 0)
                   => fs[frame[t].output_dir] = EmptyDir
            /\ pc[t] = "run" /\ frame[t].run = 1
                   => FilesIn(fs[frame[t].output_dir]) = {XYZ(1)}
            /\ \A k \in 1..Len(frame[t].seen) :
                   LET a == frame[t].seen[k]
                   IN  /\ a.out # Absent /\ a.out.run = k
                       /\ a.coord # Absent => a.coord.run <= k
                       /\ a.xyz # Absent => a.xyz.run <= k
            /\ InLoop(t) /\ ~frame[t].skipped =>
                   Numbered(t) = FilesOfAttempts(frame[t].run, frame[t].invoked)

\* C27 witness: a first call made two attempts and left the molecule with
\* the geometry of a restart file; the second call on the same instance is
\* about to make its first invocation, in a directory that holds its input
\* and nothing else.
C27_Witness ==
    /\ xmode = "serial"
    /\ frame[1].n = 2
    /\ pc[1] = "run"
    /\ frame[1].run = 1
    /\ xgeom[1].file = "xtbhess.coord"
    /\ xgeom[1].content.run = 2
    /\ FilesIn(fs[frame[1].output_dir]) = {XYZ(1)}

(* ======================================================================= *)
(* XTB._is_complete and XTB._has_neg_frequencies as functions of what they *)
(* read: the markers in the directory and the frequencies of the output.   *)
(* ======================================================================= *)

_has_neg_frequencies_from_the_first(frequencies) ==
    \E i \in 1..Len(frequencies) : frequencies[i] < 0

\* any(x < 0 for x in xtbext.frequencies[6:])
_has_neg_frequencies(frequencies) ==
    \E i \in 7..Len(frequencies) : frequencies[i] < 0

\* The directory a check reads: the markers as given, and the output file
\* of attempt 1 with the frequencies given.
ProbeDir(pr) ==
    [n \in FileNames |->
        CASE n = OUT(1) -> Content(1, 1, _has_neg_frequencies(pr.frequencies))
          [] n = XTBOPTOK -> IF pr.ok THEN Marker ELSE Absent
          [] n = NOT_CONVERGED -> IF pr.nc THEN Marker ELSE Absent
          [] OTHER -> Absent]

\* The instance that makes the check.
ProbeSelf(pr) ==
    XtbSelf([gfn_version |-> 2, calculate_hessian |-> pr.calculate_hessian,
             use_cache |-> FALSE], 1, "None", 1)

ProbeInit ==
    /\ CoreUnused
    /\ XtbUnused
    /\ EaUnused
    /\ probe \in [frequencies : UNION {[1..l -> FreqValues] : l \in 0..MaxFreqs},
                  ok : BOOLEAN, nc : BOOLEAN, calculate_hessian : BOOLEAN]
    /\ verdict = NoVerdict

\* self._is_complete(out_file)
IsComplete ==
    /\ verdict = NoVerdict
    /\ verdict' = _is_complete(ProbeSelf(probe), ProbeDir(probe), 1)
    /\ UNCHANGED <<cvars, xvars, evars, probe>>

ProbeNext == IsComplete

ProbeSpec == ProbeInit /\ [][ProbeNext]_vars

\* The places of the negative frequencies of an output.
NegativeAt(frequencies) == {i \in 1..Len(frequencies) : frequencies[i] < 0}

C28_WitnessSeventh ==
    /\ probe.ok /\ probe.calculate_hessian
    /\ NegativeAt(probe.frequencies) = {7}
    /\ verdict = [exc |-> "none", value |-> FALSE]

\* C29: on every run_ea that returns normally the terminator has fired and
\* the finalization (errors.log moved out of scratch, the final population
\* written, back in the launch directory, the output archived) has been
\* executed exactly once, after the last generation and never between two
\* generations, whatever the number of passes of the loop, zero included.
C29_AsClaimed ==
    /\ ea_pc = "returned" =>
           /\ NumGenerations_terminate(terminator, progress)
           /\ tally.finalize = 1
           /\ disk.cwd = "launch"
           /\ "scratch" \notin disk.errors_log
    /\ ea_pc \in BeforeRecord => tally.finalize = 0

\* What the code does: the finalization is part of the loop body, executed
\* once in every pass that gets that far. A run that returns has executed
\* it as many times as it made passes: not at all when the terminator is
\* true of the initial history, and then it returns from inside scratch.
C29_FinalizedInEveryPass ==
    /\ ea_pc = "returned" =>
           /\ NumGenerations_terminate(terminator, progress)
           /\ tally.finalize = gen
           /\ gen = terminator - 1
           /\ gen = 0 => disk.cwd = "scratch" /\ disk.errors_log = {"scratch"}
           /\ gen > 0 => disk.cwd = "launch" /\ disk.errors_log = {"root"}
    /\ (ea_pc \in BeforeRecord /\ gen > 0) => tally.finalize = gen - 1

\* C29 witness: with NumGenerations(1) the loop body is never entered and
\* run_ea returns with no finalization made, still in scratch.
C29_ReturnsUnfinalized ==
    /\ terminator = 1
    /\ ea_pc = "returned"
    /\ tally.finalize = 0
    /\ disk = FreshDisk

\* C29 witness: the second generation is under way after a finalization.
C29_FinalizedBetweenGenerations ==
    /\ gen = 2
    /\ ea_pc = "optimizing"
    /\ tally.finalize = 1
    /\ disk.cwd = "launch"

\* Every member of population p has a fitness value and was made before
\* generation g.
ScoredBefore(p, g) ==
    \A i \in DOMAIN p : p[i].fit = "done" /\ p[i].opt = "done" /\ p[i].born < g

\* C30: in every generation the crossover parents and the mutation parents
\* are selected from the population as it was before any offspring or mutant
\* of that generation was added: both selectors are given the same
\* population, all of whose members were made in an earlier generation and
\* have a fitness value. The offspring and the mutants are all made before
\* the merge, and duplicate removal and id assignment (the merge step) come
\* before the optimization stage.
C30_ParentsFromOldPopulation ==
    gen > 0 =>
        /\ Place(trail, "cross") > 0 =>
               /\ ScoredBefore(made.cross_pool, gen)
               /\ Len(made.cross_pool) = progress[gen].size
        /\ Place(trail, "mutate") > 0 =>
               /\ ScoredBefore(made.mutate_pool, gen)
               /\ made.mutate_pool = made.cross_pool
        /\ ea_pc \in {"cross", "mutate", "merge"} => ScoredBefore(pop, gen)
        /\ Place(trail, "merge") > 0 =>
               /\ Place(trail, "cross") < Place(trail, "mutate")
               /\ Place(trail, "mutate") < Place(trail, "merge")
               /\ Len(pop) <= Len(made.cross_pool) + made.offspring + made.mutants
                    \/ Selected
        /\ Place(trail, "optimize") > 0 =>
               Place(trail, "merge") < Place(trail, "optimize")

\* C30 witness: in the second generation an offspring and a mutant have
\* been made from a population of molecules of earlier generations, one of
\* them made in the first, and both have joined the population.
C30_Witness ==
    /\ gen = 2
    /\ ea_pc = "optimize"
    /\ made.offspring = 1 /\ made.mutants = 1
    /\ \E i \in DOMAIN made.cross_pool : made.cross_pool[i].born = 1
    /\ Len(pop) = Len(made.cross_pool) + 2

(* ------------------------- claims: XTB, the marks ---------------------- *)

\* The incomplete set of caller t's instance (empty while there is none).
IncompleteOf(x, t) == IF x[t] = NoXtb THEN {} ELSE x[t].incomplete

\* A step of caller t that starts optimize(m) past the cache look-up.
StartsOn(t, m) ==
    /\ pc[t] = "idle"
    /\ pc'[t] = "mkdir"
    /\ frame'[t].mol = m

\* C31: an XTB optimize(m) call changes the incomplete-set membership of m
\* only. No step of a call, on any exit path, puts in or takes out a
\* molecule other than the one the call is on; and a molecule leaves the set
\* only at the start of an optimize call on that same molecule.
C31_OnlyOwnMark ==
    [][\A t \in Callers : \A m2 \in Mols :
          /\ (m2 \in IncompleteOf(xinst, t)) # (m2 \in IncompleteOf(xinst', t))
                => m2 = frame'[t].mol
          /\ (m2 \in IncompleteOf(xinst, t) /\ m2 \notin IncompleteOf(xinst', t))
                => StartsOn(t, m2)]_vars

\* C31 witness: a call on molecule 1 has ended with molecule 1 not in the
\* incomplete set while molecule 2, left there by the call before, still is.
C31_Witness ==
    /\ xmode = "molecules"
    /\ pc[1] = "done"
    /\ frame[1].n = 2
    /\ frame[1].mol = 1
    /\ xinst[1].incomplete = {2}

\* C31 witness: the same with the call on molecule 1 raising.
C31_WitnessRaised ==
    /\ xmode = "molecules"
    /\ pc[1] = "raised"
    /\ frame[1].n = 2
    /\ frame[1].mol = 1
    /\ frame[1].exc \in MarkerErrors
    /\ xinst[1].incomplete = {2}


(* --------------------- claims: XTB, the marks and the cache ------------ *)
SoftIncomplete(e) == e.how = "done" /\ e.complete = "false"

HardError(e) == e.how = "raised" /\ e.exc \in MarkerErrors

\* C32: on an XTB that uses its cache, a call that ends soft-incomplete
\* returns and so has its molecule in the cache and in the incomplete set;
\* every later call on that molecule is skipped, makes no attempt and leaves
\* the molecule in the incomplete set.  A call that ended in
\* XTBConvergenceError or XTBOptimizerError leaves the molecule out of the
\* cache, and the next call on it is made in full.
C32_SoftIncompleteIsCached ==
    \A t \in Callers :
        (xinst[t] # NoXtb /\ xinst[t].use_cache) =>
            LET fr == frame[t]
                inst == xinst[t]
            IN  /\ (pc[t] = "done" /\ ~fr.skipped /\ fr.complete = "false")
                      => fr.mol \in inst.cache /\ fr.mol \in inst.incomplete
                /\ SoftIncomplete(fr.prev) =>
                      /\ fr.prev.mol \in inst.cache
                      /\ fr.prev.mol \in inst.incomplete
                      /\ (pc[t] # "idle" /\ fr.mol = fr.prev.mol) =>
                            /\ fr.skipped
                            /\ pc[t] = "done"
                            /\ fr.invoked = 0
                            /\ fr.run = 0
                            /\ fr.wrote = <<>>
                /\ (pc[t] = "raised" /\ fr.exc \in MarkerErrors)
                      => fr.mol \notin inst.cache
                /\ HardError(fr.prev) =>
                      /\ pc[t] = "idle" => fr.prev.mol \notin inst.cache
                      /\ (pc[t] # "idle" /\ fr.mol = fr.prev.mol)
                            => ~fr.skipped

\* The call after a soft-incomplete one, skipped.
C32_Witness ==
    /\ xinst[1] # NoXtb
    /\ xinst[1].use_cache
    /\ SoftIncomplete(frame[1].prev)
    /\ pc[1] = "done"
    /\ frame[1].n = 2
    /\ frame[1].skipped
    /\ frame[1].mol \in xinst[1].incomplete

\* The call after a hard error, begun in full.
C32_WitnessRetried ==
    /\ xinst[1] # NoXtb
    /\ xinst[1].use_cache
    /\ HardError(frame[1].prev)
    /\ pc[1] = "mkdir"
    /\ frame[1].n = 2
    /\ ~frame[1].skipped

\* C33: when a call raises XTBConvergenceError or XTBOptimizerError its
\* molecule is not in the incomplete set afterwards, whether or not it was
\* there when the call began; so a molecule can be absent from the set
\* although the last call on it did not converge.
C33_HardErrorLeavesUnmarked ==
    \A t \in Callers :
        /\ (pc[t] = "raised" /\ frame[t].exc \in MarkerErrors)
              => frame[t].mol \notin xinst[t].incomplete
        /\ (pc[t] = "idle" /\ HardError(frame[t].prev))
              => frame[t].prev.mol \notin xinst[t].incomplete

\* A call on a marked molecule that raised: the mark is gone and the last
\* call did not converge.
C33_Witness ==
    /\ pc[1] = "raised"
    /\ frame[1].exc \in MarkerErrors
    /\ frame[1].marked
    /\ frame[1].n = 2
    /\ frame[1].complete # "true"
    /\ frame[1].mol \notin xinst[1].incomplete

\* The restart file the checks of attempt k found was written by attempt k.
OwnRestartFile(t, k) == frame[t].seen[k].coord.run = k

\* C34, as claimed: in every attempt k of a call whose convergence check
\* fails, a restart file found in the directory is the one attempt k wrote,
\* so the restart branch is never taken, and the molecule never updated,
\* from a file an earlier attempt left.
C34_AsClaimed ==
    \A t \in Active(xmode) :
        \A k \in 1..Len(frame[t].seen) :
            (/\ CheckFailed(xinst[t], frame[t].seen[k])
             /\ frame[t].seen[k].coord # Absent)
            => OwnRestartFile(t, k)

\* C34's failing case: attempt 2 failed its check and wrote xtbopt.xyz but
\* no restart file; the file of attempt 1 was found, the restart branch was
\* taken and the molecule has the geometry of attempt 1.
C34_StaleFileDecides ==
    /\ xmode = "serial"
    /\ pc[1] = "write"
    /\ Len(frame[1].seen) = 2
    /\ CheckFailed(xinst[1], frame[1].seen[2])
    /\ frame[1].seen[2].xyz = Content(1, 2, FALSE)
    /\ frame[1].seen[2].coord # Absent
    /\ ~OwnRestartFile(1, 2)
    /\ xgeom[1] = [file |-> "xtbhess.coord",
                   content |-> frame[1].seen[2].coord]

(* ------------------- claims: XTB without the hessian ------------------- *)
\* C35: on an XTB made with calculate_hessian = False the incomplete set is
\* empty at all times.  A call that returns (having run) made one attempt,
\* found the converged marker, is complete and has updated the molecule from
\* xtbopt.xyz; a call that raised after an attempt that left xtbopt.xyz
\* found no converged marker and raised XTBConvergenceError or
\* XTBOptimizerError.
C35_NoHessianNeverIncomplete ==
    \A t \in Callers :
        (xinst[t] # NoXtb /\ ~xinst[t].calculate_hessian) =>
            LET fr == frame[t]
            IN  /\ xinst[t].incomplete = {}
                /\ ~SoftIncomplete(fr.prev)
                /\ (pc[t] = "done" /\ ~fr.skipped) =>
                      /\ fr.complete = "true"
                      /\ fr.invoked = 1
                      /\ Len(fr.seen) = 1
                      /\ fr.seen[1].ok
                      /\ xgeom[fr.mol] = [file |-> "xtbopt.xyz",
                                          content |-> fr.seen[1].xyz]
                /\ pc[t] = "raised" =>
                      /\ fr.exc \in MarkerErrors \cup
                                      {"FileNotFoundError", "OSError"}
                      /\ (fr.seen # <<>> /\ fr.seen[1].xyz # Absent) =>
                            /\ fr.exc \in MarkerErrors
                            /\ ~fr.seen[1].ok

\* A second call on such an instance has returned complete although the
\* output of its attempt holds a negative frequency.
C35_Witness ==
    /\ xinst[1] # NoXtb
    /\ ~xinst[1].calculate_hessian
    /\ ctor[1].made /\ ctor[1].args.max_runs = 2
    /\ pc[1] = "done"
    /\ frame[1].n = 2
    /\ ~frame[1].skipped
    /\ frame[1].seen[1].out.neg
    /\ frame[1].complete = "true"
    /\ xinst[1].incomplete = {}

\* A call on such an instance has raised a marker error.
C35_WitnessRaised ==
    /\ xinst[1] # NoXtb
    /\ ~xinst[1].calculate_hessian
    /\ pc[1] = "raised"
    /\ frame[1].exc \in MarkerErrors
    /\ frame[1].seen[1].xyz # Absent

(* ------------- claims: the cage sequence and its cache ----------------- *)
\* C36: a call on a caching CageOptimizerSequence that exits early because
\* the cage is collapsed returns normally with the molecule in the
\* sequence's cache; and while the sequence is caching, a call on a molecule
\* that an earlier call found collapsed and that is in the cache is skipped:
\* no window check is made, no child is called and the geometry stays.
\* Nothing takes such a molecule out of the cache.
C36_CollapsedIsCached ==
    [][/\ \A g \in Insts : \A m \in Mols :
            (m \in collapsed[g] /\ m \in cache[g]) => m \in cache'[g]
       /\ call'.op = "optimize" =>
        LET g == call'.inst
            m == call'.mol
        IN  (Config[g].kind = "CageOptimizerSequence" /\ use_cache[g]) =>
                /\ ExitedEarly(g, events') =>
                      /\ exc' = "none"
                      /\ m \in cache'[g]
                      /\ m \in collapsed'[g]
                /\ (m \in collapsed[g] /\ m \in cache[g]) =>
                      /\ events' = SkipEvents(g)
                      /\ exc' = "none"
                      /\ geom' = geom
                      /\ cache' = cache]_vars

\* The sequence found molecule 1 collapsed before mmff; etkdg was then run
\* on the molecule by hand, and the next call of the sequence was skipped:
\* mmff has not run on it.
C36_Witness ==
    /\ scenario = "cage"
    /\ use_cache["cage_sequence"]
    /\ call = [op |-> "optimize", inst |-> "cage_sequence", mol |-> 1]
    /\ 1 \in collapsed["cage_sequence"]
    /\ events = SkipEvents("cage_sequence")
    /\ geom[1] = <<"ETKDG", "ETKDG">>

(* ---------------- claims: XTB, the status of the loop ------------------ *)
\* C37, as claimed: _run_optimizations gives a boolean whatever max_runs
\* is: it never fails reading its own status, and with max_runs = 0 it
\* starts the executable not once and the call returns with the molecule
\* reported incomplete.
C37_AsClaimed ==
    \A t \in Active(xmode) :
        xinst[t] # NoXtb =>
            /\ frame[t].exc # "UnboundLocalError"
            /\ (pc[t] \in {"finally", "done"} /\ ~frame[t].skipped
                  /\ frame[t].exc = "none") =>
                  frame[t].complete \in {"true", "false"}
            /\ (xinst[t].max_runs = 0 /\ pc[t] = "done"
                  /\ ~frame[t].skipped) =>
                  /\ frame[t].invoked = 0
                  /\ frame[t].complete = "false"
                  /\ frame[t].mol \in xinst[t].incomplete

\* C37's failing case: max_runs = 0, the loop body never ran, no
\* executable was started, and the return statement has raised with the
\* status never assigned.
C37_StatusNeverAssigned ==
    /\ xmode = "serial"
    /\ xinst[1] # NoXtb
    /\ xinst[1].max_runs = 0
    /\ pc[1] = "finally"
    /\ frame[1].exc = "UnboundLocalError"
    /\ frame[1].complete = "unbound"
    /\ frame[1].invoked = 0
    /\ frame[1].wrote = <<>>
    /\ frame[1].mol \notin xinst[1].incomplete
====
